---------------------------- MODULE Spec2Model ----------------------------
(***************************************************************************)
(* A model of the form builder of src/create_form.py and src/admin.py:     *)
(* the field schema sanitizer, the format-to-pattern compiler, the field   *)
(* value validator, and the request handlers that store forms and          *)
(* submissions in the two MongoDB collections.                             *)
(*                                                                         *)
(* Python strings are sequences of one-character strings, Python dicts are *)
(* functions whose DOMAIN is the set of keys present, Python lists are     *)
(* sequences.  A key that is absent and a key that holds None or "" are    *)
(* told apart only where the code tells them apart ("k in f").            *)
(***************************************************************************)
EXTENDS Integers, Sequences, FiniteSets, TLC

VARIABLES
    forms,      \* db["forms"]: the stored form documents, in insertion order
    subs,       \* db["submissions"]: the stored submission documents
    now,        \* datetime.utcnow(), a logical clock advanced by every request
    nextId,     \* the next ObjectId the store hands out
    resp,       \* the last request and the response it got
    pc,         \* position of a call of one of the pure functions
    inp,        \* the argument of that call
    out         \* its return value

vars == <<forms, subs, now, nextId, resp, pc, inp, out>>

-----------------------------------------------------------------------------
(* Program constants, src/create_form.py:14-25 *)

MAX_TITLE_LEN == 120
MAX_DESC_LEN == 300
MAX_FIELDS == 100
MAX_LABEL_LEN == 80
MAX_PLACEHOLDER_LEN == 120
MAX_FORMAT_LEN == 64
MAX_OPTION_COUNT == 100
MAX_OPTION_LEN == 80

text_t == <<"t","e","x","t">>
number_t == <<"n","u","m","b","e","r">>
email_t == <<"e","m","a","i","l">>
tel_t == <<"t","e","l">>
date_t == <<"d","a","t","e">>
textarea_t == <<"t","e","x","t","a","r","e","a">>
select_t == <<"s","e","l","e","c","t">>

ALLOWED_FIELD_TYPES ==
    <<text_t, number_t, email_t, tel_t, date_t, textarea_t, select_t>>
AllowedTypes == {text_t, number_t, email_t, tel_t, date_t, textarea_t, select_t}

-----------------------------------------------------------------------------
(* Python str primitives *)

LowerLetters ==
    <<"a","b","c","d","e","f","g","h","i","j","k","l","m",
      "n","o","p","q","r","s","t","u","v","w","x","y","z">>
UpperLetters ==
    <<"A","B","C","D","E","F","G","H","I","J","K","L","M",
      "N","O","P","Q","R","S","T","U","V","W","X","Y","Z">>
Digits == {"0","1","2","3","4","5","6","7","8","9"}
Whitespace == {" ", "\t", "\n", "\r"}

Range(s) == {s[i] : i \in DOMAIN s}

LowerSet == Range(LowerLetters)
UpperSet == Range(UpperLetters)
IsLower(c) == c \in LowerSet
IsUpper(c) == c \in UpperSet
IsAlpha(c) == IsLower(c) \/ IsUpper(c)
IsDigit(c) == c \in Digits
IsSpace(c) == c \in Whitespace

LowerChar(c) ==
    IF IsUpper(c)
    THEN LowerLetters[CHOOSE i \in DOMAIN UpperLetters : UpperLetters[i] = c]
    ELSE c
UpperChar(c) ==
    IF IsLower(c)
    THEN UpperLetters[CHOOSE i \in DOMAIN LowerLetters : LowerLetters[i] = c]
    ELSE c

\* s.lower()
Lower(s) == [i \in DOMAIN s |-> LowerChar(s[i])]

\* s.title(): the first letter of every run of letters in upper case, the
\* other letters in lower case
Title(s) ==
    [i \in DOMAIN s |->
        IF i = 1 \/ ~IsAlpha(s[i - 1]) THEN UpperChar(s[i]) ELSE LowerChar(s[i])]

\* s[:n]
Take(s, n) == SubSeq(s, 1, IF Len(s) < n THEN Len(s) ELSE n)

\* s.strip()
Strip(s) ==
    LET keep == {i \in DOMAIN s : ~IsSpace(s[i])}
    IN  IF keep = {} THEN <<>>
        ELSE LET lo == CHOOSE i \in keep : \A j \in keep : i <= j
                 hi == CHOOSE i \in keep : \A j \in keep : j <= i
             IN  SubSeq(s, lo, hi)

\* ch * n
Repeat(ch, n) == [i \in 1..n |-> ch]

\* the elements of s that are not the marker Gone, in order
Gone == "gone"
Present(x) == x # Gone
Compact(s) == SelectSeq(s, Present)

\* re.sub(r"\s+", "_", s): every maximal run of whitespace becomes one "_"
SubWhitespace(s) ==
    Compact([i \in DOMAIN s |->
                IF ~IsSpace(s[i]) THEN s[i]
                ELSE IF i > 1 /\ IsSpace(s[i - 1]) THEN Gone ELSE "_"])

\* re.sub(r"[^a-z0-9_]+", "", s)
IsIdChar(c) == IsLower(c) \/ IsDigit(c) \/ c = "_"
StripNonId(s) == SelectSeq(s, IsIdChar)

\* re.split(r"[\n,]", s): the text between consecutive delimiters
SplitOptions(s) ==
    LET cut == {i \in DOMAIN s : s[i] \in {"\n", ","}} \cup {0, Len(s) + 1}
        nth(k) == CHOOSE i \in cut : Cardinality({j \in cut : j < i}) = k
    IN  [k \in 1..(Cardinality(cut) - 1) |-> SubSeq(s, nth(k - 1) + 1, nth(k) - 1)]

\* f.get(k) or d, for a dict f and a string-valued key k
GetOr(f, k, d) == IF k \in DOMAIN f /\ f[k] # <<>> THEN f[k] ELSE d


\* bool(f.get(k)), for a key k that holds a JSON boolean when present
GetBool(f, k) == k \in DOMAIN f /\ f[k]

-----------------------------------------------------------------------------
(* format_to_regex, src/create_form.py:48-67.  A compiled pattern is the    *)
(* sequence of its regex pieces: "^", then one piece per maximal run of the *)
(* format, then "$".  A piece is [atom, count, text]: atom is the regex     *)
(* atom ("\d", "[A-Za-z]", ".+" or "lit" for an escaped literal), count the *)
(* number n of a "{n}" quantifier (0: no quantifier), text the literal.     *)

Piece(atom, count, text) == [atom |-> atom, count |-> count, text |-> text]
Bol == Piece("^", 0, <<>>)
Eol == Piece("$", 0, <<>>)

\* while j < n and fmt[j] == ch: j += 1   (the length of the run that starts at i)
RunLen(fmt, i) ==
    LET stop == {j \in i..Len(fmt) : fmt[j] # fmt[i]} \cup {Len(fmt) + 1}
    IN  (CHOOSE j \in stop : \A m \in stop : j <= m) - i

\* RunPiece with a run of "*" quantified by its length as runs of "X" and "A"
\* are
RunPiece_StarCounted(ch, run_len) ==
    IF ch = "X" THEN Piece("\\d", IF run_len > 1 THEN run_len ELSE 0, <<>>)
    ELSE IF ch = "A" THEN Piece("[A-Za-z]", IF run_len > 1 THEN run_len ELSE 0, <<>>)
    ELSE IF ch = "*" THEN Piece(".+", IF run_len > 1 THEN run_len ELSE 0, <<>>)
    ELSE Piece("lit", 0, Repeat(ch, run_len))

\* RunPiece with the run length dropped: every run compiles to one atom
RunPiece_NoCount(ch, run_len) ==
    IF ch = "X" THEN Piece("\\d", 0, <<>>)
    ELSE IF ch = "A" THEN Piece("[A-Za-z]", 0, <<>>)
    ELSE IF ch = "*" THEN Piece(".+", 0, <<>>)
    ELSE Piece("lit", 0, Repeat(ch, run_len))

RunPiece(ch, run_len) ==
    IF ch = "X" THEN Piece("\\d", IF run_len > 1 THEN run_len ELSE 0, <<>>)
    ELSE IF ch = "A" THEN Piece("[A-Za-z]", IF run_len > 1 THEN run_len ELSE 0, <<>>)
    ELSE IF ch = "*" THEN Piece(".+", 0, <<>>)
    ELSE Piece("lit", 0, Repeat(ch, run_len))

\* the while loop of lines 52-66: one piece at every position that starts a run
NoPiece == Piece(Gone, 0, <<>>)
IsPiece(p) == p.atom # Gone
RegexPieces(fmt) ==
    SelectSeq([i \in DOMAIN fmt |->
                  IF i > 1 /\ fmt[i - 1] = fmt[i] THEN NoPiece
                  ELSE RunPiece(fmt[i], RunLen(fmt, i))],
              IsPiece)

format_to_regex(fmt) ==
    IF fmt = <<>> THEN <<>> ELSE <<Bol>> \o RegexPieces(fmt) \o <<Eol>>

\* re.fullmatch(patt, value): the pieces of patt from the k-th on match
\* value from position i to its end
RECURSIVE MatchAt(_, _, _, _)
MatchAt(patt, k, value, i) ==
    IF k > Len(patt) THEN i = Len(value) + 1
    ELSE LET t == patt[k]
             n == IF t.count = 0 THEN 1 ELSE t.count
         IN  CASE t.atom = "^" -> i = 1 /\ MatchAt(patt, k + 1, value, i)
               [] t.atom = "$" ->
                    /\ i = Len(value) + 1 \/ (i = Len(value) /\ value[i] = "\n")
                    /\ MatchAt(patt, k + 1, value, i)
               [] t.atom = "\\d" ->
                    /\ i + n - 1 <= Len(value)
                    /\ \A j \in i..(i + n - 1) : IsDigit(value[j])
                    /\ MatchAt(patt, k + 1, value, i + n)
               [] t.atom = "[A-Za-z]" ->
                    /\ i + n - 1 <= Len(value)
                    /\ \A j \in i..(i + n - 1) : IsAlpha(value[j])
                    /\ MatchAt(patt, k + 1, value, i + n)
               [] t.atom = ".+" ->
                    \E j \in i..Len(value) :
                        /\ \A m \in i..j : value[m] # "\n"
                        /\ MatchAt(patt, k + 1, value, j + 1)
               [] OTHER ->
                    /\ i + Len(t.text) - 1 <= Len(value)
                    /\ SubSeq(value, i, i + Len(t.text) - 1) = t.text
                    /\ MatchAt(patt, k + 1, value, i + Len(t.text))

FullMatch(patt, value) == MatchAt(patt, 1, value, 1)

-----------------------------------------------------------------------------
(* _coerce_options, src/create_form.py:89-117.  The raw value is a JSON     *)
(* value: a list of strings, a string, or anything else (null, a number).   *)

ListVal(items) == [tag |-> "list", items |-> items, text |-> <<>>]
StrVal(text) == [tag |-> "str", items |-> <<>>, text |-> text]
OtherVal == [tag |-> "other", items |-> <<>>, text |-> <<>>]

\* opts = [str(x) for x in raw]  |  [p for p in (s.strip() for s in parts)]
OptionCandidates(raw) ==
    IF raw.tag = "list" THEN raw.items
    ELSE LET parts == SplitOptions(raw.text)
         IN  [i \in DOMAIN parts |-> Strip(parts[i])]

\* one pass of the body of the cleaning loop, lines 107-116, on candidate o0;
\* st is [seen, cleaned, stop], stop being set by the break
CleanStep(st, o0) ==
    LET o == Take(o0, MAX_OPTION_LEN)
    IN  IF st.stop \/ o0 = <<>> \/ Lower(o) \in st.seen THEN st
        ELSE [seen |-> st.seen \cup {Lower(o)},
              cleaned |-> Append(st.cleaned, o),
              stop |-> Len(st.cleaned) + 1 >= MAX_OPTION_COUNT]

\* the loop over opts[lo..hi], left to right, left by the break
RECURSIVE CleanLoop(_, _, _, _)
CleanLoop(opts, lo, hi, st) ==
    IF lo > hi THEN st
    ELSE IF lo = hi THEN CleanStep(st, opts[lo])
    ELSE LET mid == (lo + hi) \div 2
             left == CleanLoop(opts, lo, mid, st)
         IN  IF left.stop THEN left ELSE CleanLoop(opts, mid + 1, hi, left)

_coerce_options(raw) ==
    IF raw.tag \notin {"list", "str"} THEN <<>>
    ELSE LET opts == OptionCandidates(raw)
         IN  CleanLoop(opts, 1, Len(opts),
                       [seen |-> {}, cleaned |-> <<>>, stop |-> FALSE]).cleaned

-----------------------------------------------------------------------------
(* _sanitize_fields, src/create_form.py:119-170.  The payload is a JSON     *)
(* value: [isList, items]; an entry is a dict or a JSON value that is no    *)
(* dict (NotADict).  The result (fields, err) is [fields, err], with        *)
(* fields = <<>> for None and err = NoErr for None.                         *)

NotADict == [scalar |-> TRUE]
IsDict(f) == "scalar" \notin DOMAIN f

ListPayload(items) == [isList |-> TRUE, items |-> items]
NotAList == [isList |-> FALSE, items |-> <<>>]

\* an error message: the f-string and the label it interpolates
Err(text, label) == [text |-> text, label |-> label]
NoErr == Err("", <<>>)
IsErr(e) == e.text # ""

ErrInvalidPayload == Err("Invalid fields payload.", <<>>)
ErrTooMany == Err("Too many fields (max {MAX_FIELDS}).", <<>>)
ErrNoOption(label) == Err("Field '{label_clean}': add at least one option.", label)
ErrNoField == Err("Add at least one field.", <<>>)

\* lines 133-143: the canonical id, label, type and required flag
BaseField(f, ftype) ==
    LET label_clean == Take(Strip(GetOr(f, "label", Title(ftype))), MAX_LABEL_LEN)
        fid_source == Lower(Strip(GetOr(f, "label", ftype)))
        fid == StripNonId(SubWhitespace(fid_source))
    IN  [id |-> IF fid # <<>> THEN fid ELSE ftype,
         label |-> IF label_clean # <<>> THEN label_clean ELSE Title(ftype),
         type |-> ftype,
         required |-> GetBool(f, "required")]

\* lines 145-147
WithPlaceholder(cf, f) ==
    LET placeholder == Take(Strip(GetOr(f, "placeholder", <<>>)), MAX_PLACEHOLDER_LEN)
    IN  IF placeholder # <<>> /\ cf.type # select_t
        THEN cf @@ ("placeholder" :> placeholder)
        ELSE cf

\* lines 149-152
WithFormat(cf, f) ==
    LET fmt == Take(Strip(GetOr(f, "format", <<>>)), MAX_FORMAT_LEN)
    IN  IF fmt # <<>> /\ cf.type \notin {select_t, date_t, textarea_t}
        THEN cf @@ ("format" :> fmt) @@ ("pattern" :> format_to_regex(fmt))
        ELSE cf

\* line 156
OptionsRaw(f) ==
    IF "options" \in DOMAIN f THEN f.options
    ELSE IF "options_text" \in DOMAIN f THEN f.options_text
    ELSE StrVal(<<>>)

\* lines 160-164
WithOptions(cf, f, options) ==
    LET default_val == Strip(GetOr(f, "default", <<>>))
        c1 == cf @@ ("options" :> options)
    IN  IF default_val # <<>> /\ default_val \in Range(options)
        THEN c1 @@ ("default" :> default_val)
        ELSE c1

\* SanitizeStep with a select without options dropped like a malformed entry
\* instead of failing the batch
SanitizeStep_SkipsOptionless(st, f) ==
    IF IsErr(st.err) \/ ~IsDict(f) THEN st
    ELSE LET ftype == Strip(GetOr(f, "type", <<>>))
         IN  IF ftype \notin AllowedTypes THEN st
             ELSE LET cf == WithFormat(WithPlaceholder(BaseField(f, ftype), f), f)
                      options == _coerce_options(OptionsRaw(f))
                  IN  IF ftype # select_t
                      THEN [st EXCEPT !.fields = Append(@, cf)]
                      ELSE IF options = <<>> THEN st
                      ELSE [st EXCEPT !.fields = Append(@, WithOptions(cf, f, options))]

\* one pass of the body of the loop of lines 126-166 on entry f; st is
\* [fields, err], err being set by the return of line 159
SanitizeStep(st, f) ==
    IF IsErr(st.err) \/ ~IsDict(f) THEN st
    ELSE LET ftype == Strip(GetOr(f, "type", <<>>))
         IN  IF ftype \notin AllowedTypes THEN st
             ELSE LET cf == WithFormat(WithPlaceholder(BaseField(f, ftype), f), f)
                      options == _coerce_options(OptionsRaw(f))
                  IN  IF ftype # select_t
                      THEN [st EXCEPT !.fields = Append(@, cf)]
                      ELSE IF options = <<>>
                      THEN [fields |-> <<>>,
                            err |-> ErrNoOption(
                                Take(Strip(GetOr(f, "label", Title(ftype))),
                                     MAX_LABEL_LEN))]
                      ELSE [st EXCEPT !.fields = Append(@, WithOptions(cf, f, options))]

\* the loop over fields_in[lo..hi], left to right, left by the return
RECURSIVE SanitizeLoop(_, _, _, _)
SanitizeLoop(items, lo, hi, st) ==
    IF lo > hi THEN st
    ELSE IF lo = hi THEN SanitizeStep(st, items[lo])
    ELSE LET mid == (lo + hi) \div 2
             left == SanitizeLoop(items, lo, mid, st)
         IN  IF IsErr(left.err) THEN left ELSE SanitizeLoop(items, mid + 1, hi, left)

\* _sanitize_fields with a list beyond MAX_FIELDS cut to its first MAX_FIELDS
\* entries instead of rejected
_sanitize_fields_Truncating(fields_in) ==
    IF ~fields_in.isList THEN [fields |-> <<>>, err |-> ErrInvalidPayload]
    ELSE LET items == Take(fields_in.items, MAX_FIELDS)
             st == SanitizeLoop(items, 1, Len(items), [fields |-> <<>>, err |-> NoErr])
         IN  IF IsErr(st.err) THEN st
             ELSE IF st.fields = <<>> THEN [fields |-> <<>>, err |-> ErrNoField]
             ELSE st

_sanitize_fields(fields_in) ==
    IF ~fields_in.isList THEN [fields |-> <<>>, err |-> ErrInvalidPayload]
    ELSE IF Len(fields_in.items) > MAX_FIELDS THEN [fields |-> <<>>, err |-> ErrTooMany]
    ELSE LET st == SanitizeLoop(fields_in.items, 1, Len(fields_in.items),
                                [fields |-> <<>>, err |-> NoErr])
         IN  IF IsErr(st.err) THEN st
             ELSE IF st.fields = <<>> THEN [fields |-> <<>>, err |-> ErrNoField]
             ELSE st

\* a stored field list read back as a raw payload: the options list of a
\* select field is a JSON list
AsRawField(cf) ==
    IF "options" \in DOMAIN cf THEN [cf EXCEPT !.options = ListVal(@)] ELSE cf
AsRawPayload(fields) == ListPayload([i \in DOMAIN fields |-> AsRawField(fields[i])])

-----------------------------------------------------------------------------
(* _validate_field_value, src/create_form.py:187-226 *)

\* a run of decimal digits, single underscores allowed between digits
IsDigitPart(s) ==
    /\ s # <<>>
    /\ IsDigit(s[1]) /\ IsDigit(s[Len(s)])
    /\ \A i \in DOMAIN s : IsDigit(s[i]) \/ (s[i] = "_" /\ s[i - 1] # "_")

\* digits, digits. , digits.digits , .digits
IsMantissa(s) ==
    \/ IsDigitPart(s)
    \/ \E k \in DOMAIN s :
         /\ s[k] = "."
         /\ LET ip == SubSeq(s, 1, k - 1)
                fp == SubSeq(s, k + 1, Len(s))
            IN  /\ ip = <<>> \/ IsDigitPart(ip)
                /\ fp = <<>> \/ IsDigitPart(fp)
                /\ ip # <<>> \/ fp # <<>>

DropSign(s) == IF s # <<>> /\ s[1] \in {"+", "-"} THEN Tail(s) ELSE s

\* float(value) does not raise ValueError
IsFloat(value) ==
    LET u == Lower(DropSign(Strip(value)))
    IN  \/ u \in {<<"i","n","f">>, <<"n","a","n">>,
                  <<"i","n","f","i","n","i","t","y">>}
        \/ IsMantissa(u)
        \/ \E k \in DOMAIN u :
             /\ u[k] = "e"
             /\ IsMantissa(SubSeq(u, 1, k - 1))
             /\ LET ex == DropSign(SubSeq(u, k + 1, Len(u)))
                IN  ex # <<>> /\ IsDigitPart(ex)

\* EMAIL_RE = ^[^@\s]+@[^@\s]+\.[^@\s]+$  (line 39), matched from the start
EmailMatch(s) ==
    /\ \A i \in DOMAIN s : ~IsSpace(s[i])
    /\ Cardinality({i \in DOMAIN s : s[i] = "@"}) = 1
    /\ LET at == CHOOSE i \in DOMAIN s : s[i] = "@"
       IN  /\ at > 1
           /\ \E d \in (at + 2)..(Len(s) - 1) : s[d] = "."

\* TEL_RE = ^[0-9+()\-.\s]{3,}$  (line 40)
IsTelChar(c) == IsDigit(c) \/ c \in {"+", "(", ")", "-", "."} \/ IsSpace(c)
TelMatch(s) == Len(s) >= 3 /\ \A i \in DOMAIN s : IsTelChar(s[i])

\* value is None -> "": a JSON value that is no string stands for None
NormValue(v) == IF v.tag = "str" THEN v.text ELSE <<>>

FieldName(field_def) == GetOr(field_def, "label", GetOr(field_def, "id", <<>>))

Valid == [ok |-> TRUE, err |-> NoErr]
Invalid(text, field_def) == [ok |-> FALSE, err |-> Err(text, FieldName(field_def))]

\* TypeCheck with the type-specific checks left out
TypeCheck_Skipped(field_def, value) == Valid

\* lines 200-216
TypeCheck(field_def, value) ==
    LET ftype == GetOr(field_def, "type", <<>>)
        options == GetOr(field_def, "options", <<>>)
    IN  IF ftype = number_t /\ Strip(value) # <<>> /\ ~IsFloat(value)
        THEN Invalid("{label} must be a number.", field_def)
        ELSE IF ftype = email_t /\ Strip(value) # <<>> /\ ~EmailMatch(Strip(value))
        THEN Invalid("{label} must be a valid email.", field_def)
        ELSE IF ftype = tel_t /\ Strip(value) # <<>> /\ ~TelMatch(Strip(value))
        THEN Invalid("{label} must be a valid phone.", field_def)
        ELSE IF ftype = select_t /\ options # <<>> /\ value \notin Range(options)
        THEN Invalid("{label} must be one of the provided options.", field_def)
        ELSE Valid

\* lines 218-226
MaskCheck(field_def, value) ==
    LET patt == GetOr(field_def, "pattern", <<>>)
    IN  IF patt # <<>> /\ Strip(value) # <<>> /\ ~FullMatch(patt, value)
        THEN Invalid("{label} is not in the required format.", field_def)
        ELSE Valid

\* _validate_field_value with the required check after the type checks
_validate_field_value_TypeFirst(field_def, v) ==
    LET value == NormValue(v)
    IN  IF ~TypeCheck(field_def, value).ok
        THEN TypeCheck(field_def, value)
        ELSE IF GetBool(field_def, "required") /\ Strip(value) = <<>>
        THEN Invalid("Missing required field: {label}", field_def)
        ELSE IF Strip(value) = <<>>
        THEN Valid
        ELSE MaskCheck(field_def, value)

\* _validate_field_value without the early return for an optional empty value
_validate_field_value_NoSkip(field_def, v) ==
    LET value == NormValue(v)
    IN  IF GetBool(field_def, "required") /\ Strip(value) = <<>>
        THEN Invalid("Missing required field: {label}", field_def)
        ELSE IF ~TypeCheck(field_def, value).ok
        THEN TypeCheck(field_def, value)
        ELSE MaskCheck(field_def, value)

_validate_field_value(field_def, v) ==
    LET value == NormValue(v)
    IN  IF GetBool(field_def, "required") /\ Strip(value) = <<>>
        THEN Invalid("Missing required field: {label}", field_def)
        ELSE IF ~GetBool(field_def, "required") /\ Strip(value) = <<>>
        THEN Valid
        ELSE IF ~TypeCheck(field_def, value).ok
        THEN TypeCheck(field_def, value)
        ELSE MaskCheck(field_def, value)

-----------------------------------------------------------------------------
(* The state of the store before any request, and of a pure call before it *)
(* is made.                                                                 *)

NoResp == [op |-> "none"]

DbIdle ==
    /\ forms = <<>>
    /\ subs = <<>>
    /\ now = 0
    /\ nextId = 1
    /\ resp = NoResp

DbUnchanged == UNCHANGED <<forms, subs, now, nextId, resp>>

\* all strings over alphabet of length at most n
Strings(alphabet, n) == UNION {[1..k -> alphabet] : k \in 0..n}
\* all lists over items of length at most n
Lists(items, n) == UNION {[1..k -> items] : k \in 0..n}

-----------------------------------------------------------------------------
(* Calls of _coerce_options on bounded inputs *)

MaxOptionTextLen == 4
MaxOptionItems == 2
MaxOptionItemLen == 2

\* "A, B,, a"
OptionsExample == <<"A", ",", " ", "B", ",", ",", " ", "a">>

\* more than MAX_OPTION_COUNT candidates, pairwise distinct after truncation:
\* "a", "aa", ... up to MAX_OPTION_LEN letters, then "b", "bb", ...
ManyOptions ==
    [i \in 1..(MAX_OPTION_COUNT + 1) |->
        IF i <= MAX_OPTION_LEN THEN Repeat("a", i) ELSE Repeat("b", i - MAX_OPTION_LEN)]

\* ",".join(items[lo..hi])
RECURSIVE CommaJoined(_, _, _)
CommaJoined(items, lo, hi) ==
    IF lo > hi THEN <<>>
    ELSE IF lo = hi THEN items[lo]
    ELSE LET mid == (lo + hi) \div 2
         IN  CommaJoined(items, lo, mid) \o <<",">> \o CommaJoined(items, mid + 1, hi)

LongOptionInputs ==
    { ListVal(ManyOptions),
      StrVal(CommaJoined(ManyOptions, 1, Len(ManyOptions))),
      ListVal(<<Repeat("a", MAX_OPTION_LEN + 1), Repeat("A", MAX_OPTION_LEN)>>),
      StrVal(Repeat("a", MAX_OPTION_LEN - 1) \o <<" ", "b">>),
      StrVal(OptionsExample) }

CoerceInputs ==
    {StrVal(t) : t \in Strings({"A", "a", "B", " ", ","}, MaxOptionTextLen)}
    \cup {ListVal(l) : l \in Lists(Strings({"A", "a", " "}, MaxOptionItemLen),
                                   MaxOptionItems)}
    \cup LongOptionInputs
    \cup {OtherVal}

InitCoerce ==
    /\ DbIdle
    /\ pc = "coerce"
    /\ inp \in CoerceInputs
    /\ out = <<>>

CoerceCall ==
    /\ pc = "coerce"
    /\ out' = _coerce_options(inp)
    /\ pc' = "coerced"
    /\ UNCHANGED inp
    /\ DbUnchanged

NextCoerce == CoerceCall

SpecCoerce == InitCoerce /\ [][NextCoerce]_vars

\* the candidates of a raw options value as section 4.1a describes them:
\* every list item or delimited part, trimmed, then cut to MAX_OPTION_LEN
TrimmedCandidates(raw) ==
    LET parts == IF raw.tag = "list" THEN raw.items
                 ELSE IF raw.tag = "str" THEN SplitOptions(raw.text)
                 ELSE <<>>
    IN  [i \in DOMAIN parts |-> Take(Strip(parts[i]), MAX_OPTION_LEN)]

NonEmpty(x) == x # <<>>

\* the non-empty candidates that are the first with their lower-case form,
\* in order, cut to MAX_OPTION_COUNT
FirstSeen(cand) ==
    Take(SelectSeq([i \in DOMAIN cand |->
                      IF \E j \in 1..(i - 1) : Lower(cand[j]) = Lower(cand[i])
                      THEN <<>> ELSE cand[i]],
                   NonEmpty),
         MAX_OPTION_COUNT)

\* C4: for a list of strings and for a delimited string alike, no element of
\* the list _coerce_options returns is empty, whitespace-only, or has leading
\* or trailing whitespace
C4_OptionsTrimmed ==
    pc = "coerced" =>
        \A i \in DOMAIN out :
            /\ out[i] # <<>>
            /\ ~IsSpace(out[i][1])
            /\ ~IsSpace(out[i][Len(out[i])])

\* C5: the list _coerce_options returns holds no two elements equal under
\* lowercasing, each element is the first candidate (trimmed and cut to
\* MAX_OPTION_LEN) with its lower-case form, in order of first occurrence,
\* at most MAX_OPTION_COUNT of them; "A, B,, a" yields ["A", "B"]
C5_FirstSeenDedup ==
    pc = "coerced" =>
        /\ Len(out) <= MAX_OPTION_COUNT
        /\ \A i, j \in DOMAIN out : i # j => Lower(out[i]) # Lower(out[j])
        /\ out = FirstSeen(TrimmedCandidates(inp))
        /\ inp = StrVal(OptionsExample) => out = << <<"A">>, <<"B">> >>

\* On the delimited-string shape, where the code does trim every candidate,
\* the result is the first-seen de-duplication (holds; the list shape is what
\* breaks C5_FirstSeenDedup)
StringShapeDedup ==
    (pc = "coerced" /\ inp.tag = "str") =>
        /\ out = FirstSeen(TrimmedCandidates(inp))
        /\ inp = StrVal(OptionsExample) => out = << <<"A">>, <<"B">> >>

-----------------------------------------------------------------------------
(* Calls of _sanitize_fields on bounded raw field lists, each followed by a *)
(* second call on the first call's result read back as a raw payload.       *)

MaxLabelTextLen == 2
MaxRawFields == 2
MaxFormatTextLen == 2

\* "XXX-AA"
FormatExample == <<"X", "X", "X", "-", "A", "A">>

\* entries that differ in how they are skipped, rejected or kept
ShapeEntries ==
    { NotADict,
      [type |-> <<"x">>, label |-> <<"a">>],
      [label |-> <<"a">>],
      [type |-> text_t, label |-> <<"a">>, required |-> TRUE,
       placeholder |-> <<" ", "p">>],
      [type |-> <<" ">> \o select_t \o <<" ">>, label |-> <<"b">>],
      [type |-> select_t, label |-> <<" ">>],
      [type |-> select_t],
      [type |-> select_t, label |-> <<"c">>, options |-> OtherVal,
       options_text |-> StrVal(<<"A">>)],
      [type |-> select_t, label |-> <<"c">>, options_text |-> StrVal(OptionsExample),
       default |-> <<"B">>, placeholder |-> <<"p">>, format |-> <<"X">>],
      [type |-> select_t, label |-> <<"d">>, options |-> ListVal(<< <<"A">>, <<" ">> >>),
       default |-> <<"x">>],
      [type |-> select_t, label |-> <<"e">>, options |-> ListVal(<< <<>> >>)],
      [type |-> select_t, label |-> <<"e", "!">>, options |-> StrVal(<<" ", ",", "\n">>)] }

\* text fields whose labels are equal, or differ in case, whitespace or
\* stripped characters
LabelEntries ==
    {[type |-> text_t, label |-> l] : l \in Strings({"a", "A", " "}, MaxLabelTextLen)}
    \cup {[type |-> text_t, label |-> <<"a", "!">>],
          [type |-> email_t, label |-> <<"!">>]}

\* one entry of every allowed type with a format mask
FormatEntries ==
    {[type |-> t, label |-> <<"f">>, format |-> fmt] :
        t \in Range(ALLOWED_FIELD_TYPES),
        fmt \in Strings({"X", "A", "*", "-"}, MaxFormatTextLen)
                \cup {FormatExample, <<" ">> \o FormatExample \o <<" ">>}}
    \cup {[type |-> select_t, label |-> <<"f">>, format |-> FormatExample,
           options |-> ListVal(<< <<"A">> >>)]}

\* one select entry per raw options value
OptionEntries ==
    {[type |-> select_t, label |-> <<"s">>, options |-> o] :
        o \in {StrVal(t) : t \in Strings({"A", "a", " ", ","}, MaxOptionItemLen)}
              \cup {ListVal(l) : l \in Lists(Strings({"A", " "}, 1), MaxOptionItems)}}

\* labels and formats at and beyond MAX_LABEL_LEN and MAX_FORMAT_LEN
LongEntries ==
    { [type |-> text_t, label |-> Repeat("a", MAX_LABEL_LEN)],
      [type |-> text_t, label |-> Repeat("a", MAX_LABEL_LEN + 1)],
      [type |-> text_t, label |-> <<"n">>, format |-> Repeat("X", MAX_FORMAT_LEN)],
      [type |-> text_t, label |-> <<"n">>, format |-> Repeat("X", MAX_FORMAT_LEN + 1)],
      [type |-> text_t, label |-> <<"n">>,
       format |-> Repeat("X", MAX_FORMAT_LEN - 1) \o <<" ", "A">>],
      [type |-> select_t, label |-> Repeat("b", MAX_LABEL_LEN + 1)] }

\* lists at and beyond MAX_FIELDS, of one entry repeated
SizedLists ==
    {[i \in 1..n |-> e] : n \in {MAX_FIELDS, MAX_FIELDS + 1}, e \in ShapeEntries}

SanitizeInputs ==
    {ListPayload(l) : l \in Lists(ShapeEntries, MaxRawFields)
                             \cup Lists(LabelEntries, MaxRawFields)
                             \cup {<<e>> : e \in FormatEntries \cup OptionEntries
                                                  \cup LongEntries}
                             \cup SizedLists}
    \cup {NotAList}

InitSanitize ==
    /\ DbIdle
    /\ pc = "sanitize"
    /\ inp \in SanitizeInputs
    /\ out = [first |-> [fields |-> <<>>, err |-> NoErr],
              second |-> [fields |-> <<>>, err |-> NoErr]]

SanitizeCall ==
    /\ pc = "sanitize"
    /\ out' = [out EXCEPT !.first = _sanitize_fields(inp)]
    /\ pc' = "sanitized"
    /\ UNCHANGED inp
    /\ DbUnchanged

ResanitizeCall ==
    /\ pc = "sanitized"
    /\ ~IsErr(out.first.err)
    /\ out' = [out EXCEPT !.second = _sanitize_fields(AsRawPayload(out.first.fields))]
    /\ pc' = "resanitized"
    /\ UNCHANGED inp
    /\ DbUnchanged

NextSanitize == SanitizeCall \/ ResanitizeCall

SpecSanitize == InitSanitize /\ [][NextSanitize]_vars

Sanitized == pc \in {"sanitized", "resanitized"}

\* C2: in every field list _sanitize_fields returns, the ids are pairwise
\* distinct and each id is a non-empty string over [a-z0-9_]
C2_IdsDistinctSlugs ==
    (Sanitized /\ ~IsErr(out.first.err)) =>
        LET fields == out.first.fields
        IN  /\ \A i, j \in DOMAIN fields : i # j => fields[i].id # fields[j].id
            /\ \A i \in DOMAIN fields :
                 /\ fields[i].id # <<>>
                 /\ \A k \in DOMAIN fields[i].id :
                      \/ IsLower(fields[i].id[k])
                      \/ IsDigit(fields[i].id[k])
                      \/ fields[i].id[k] = "_"

\* the pattern of a field, <<>> when it has none
PatternOf(cf) == IF "pattern" \in DOMAIN cf THEN cf.pattern ELSE <<>>

\* C3: feeding the result of a successful _sanitize_fields back as raw input
\* succeeds and yields, position by position, the same id and the same pattern
C3_SanitizeStable ==
    pc = "resanitized" =>
        /\ ~IsErr(out.second.err)
        /\ Len(out.second.fields) = Len(out.first.fields)
        /\ \A i \in DOMAIN out.first.fields :
             /\ out.second.fields[i].id = out.first.fields[i].id
             /\ PatternOf(out.second.fields[i]) = PatternOf(out.first.fields[i])

\* the entries of a raw list that are dicts of type select whose coerced
\* options are empty
OptionlessSelects(items) ==
    {i \in DOMAIN items :
        /\ IsDict(items[i])
        /\ Strip(GetOr(items[i], "type", <<>>)) = select_t
        /\ _coerce_options(OptionsRaw(items[i])) = <<>>}

\* the label an entry is named by: its raw label trimmed and capped, the
\* title-cased type when it has none
NamedLabel(f) ==
    Take(Strip(IF "label" \in DOMAIN f /\ f.label # <<>> THEN f.label ELSE Title(select_t)),
         MAX_LABEL_LEN)

IsPerFieldErr(e) == e.text = "Field '{label_clean}': add at least one option."

IsTextEntry(f) == IsDict(f) /\ GetOr(f, "type", <<>>) = text_t

\* C7: a raw list of more than MAX_FIELDS entries gets an error and no field
\* list whatever its entries are; a list of exactly MAX_FIELDS entries is not
\* rejected for its size
C7_TooManyIsAnError ==
    (Sanitized /\ inp.isList) =>
        /\ Len(inp.items) > MAX_FIELDS =>
             out.first.fields = <<>> /\ IsErr(out.first.err)
        /\ Len(inp.items) = MAX_FIELDS =>
             /\ out.first.err # ErrTooMany
             /\ (\A i \in DOMAIN inp.items : IsTextEntry(inp.items[i])) =>
                    Len(out.first.fields) = MAX_FIELDS

\* MAX_FIELDS + 1 valid text fields have been rejected
C7_Witness ==
    /\ pc = "sanitized"
    /\ inp.isList
    /\ Len(inp.items) = MAX_FIELDS + 1
    /\ \A i \in DOMAIN inp.items : IsTextEntry(inp.items[i])
    /\ out.first = [fields |-> <<>>, err |-> ErrTooMany]

\* "123-ab", "1234-ab", "123-a1"
Sample_123_ab == <<"1", "2", "3", "-", "a", "b">>
Sample_1234_ab == <<"1", "2", "3", "4", "-", "a", "b">>
Sample_123_a1 == <<"1", "2", "3", "-", "a", "1">>

\* the sanitized field has a pattern that matches "123-ab" and rejects
\* "1234-ab" and "123-a1"
CompiledExample(cf) ==
    /\ "pattern" \in DOMAIN cf
    /\ FullMatch(cf.pattern, Sample_123_ab)
    /\ ~FullMatch(cf.pattern, Sample_1234_ab)
    /\ ~FullMatch(cf.pattern, Sample_123_a1)

\* the call sanitized one raw field of a type in types whose format is "XXX-AA"
ExampleFormatOf(types) ==
    /\ Sanitized
    /\ inp.isList
    /\ Len(inp.items) = 1
    /\ IsDict(inp.items[1])
    /\ "format" \in DOMAIN inp.items[1]
    /\ Strip(inp.items[1].format) = FormatExample
    /\ GetOr(inp.items[1], "type", <<>>) \in types

\* C9 as stated: for every type other than select, the format "XXX-AA" is
\* sanitized into a pattern matching "123-ab" and rejecting "1234-ab", "123-a1"
C9_EveryNonSelectType ==
    ExampleFormatOf(Range(ALLOWED_FIELD_TYPES) \ {select_t}) =>
        /\ ~IsErr(out.first.err)
        /\ CompiledExample(out.first.fields[1])

\* C9 as amended: for the types text, number, email and tel, the format
\* "XXX-AA" is sanitized into a pattern matching "123-ab" and rejecting
\* "1234-ab" and "123-a1"; for date and textarea the format is dropped and
\* the field has no pattern
C9_TextLikeTypes ==
    /\ ExampleFormatOf({text_t, number_t, email_t, tel_t}) =>
         /\ ~IsErr(out.first.err)
         /\ CompiledExample(out.first.fields[1])
    /\ ExampleFormatOf({date_t, textarea_t}) =>
         /\ ~IsErr(out.first.err)
         /\ DOMAIN out.first.fields[1] \cap {"format", "pattern"} = {}

\* a tel field with the format "XXX-AA" has been sanitized
C9_Witness ==
    /\ ExampleFormatOf({tel_t})
    /\ pc = "sanitized"
    /\ "pattern" \in DOMAIN out.first.fields[1]

-----------------------------------------------------------------------------
(* Calls of _validate_field_value on bounded field definitions and values *)

MaxBlankLen == 2

\* ["Red", "Blue"]
RedBlue == << <<"R", "e", "d">>, <<"B", "l", "u", "e">> >>

\* field definitions of every type, required or not, with or without a
\* pattern, with or without options
ValidateFieldDefs ==
    {(([id |-> <<"f">>, label |-> <<"F">>, type |-> t, required |-> r]
        @@ IF fmt = <<>> THEN <<>>
           ELSE [format |-> fmt, pattern |-> format_to_regex(fmt)])
        @@ IF o = 0 THEN <<>>
           ELSE IF o = 1 THEN [options |-> <<>>]
           ELSE [options |-> RedBlue, default |-> RedBlue[1]]) :
        t \in Range(ALLOWED_FIELD_TYPES),
        r \in BOOLEAN,
        fmt \in {<<>>, FormatExample, <<"X">>, <<"*">>},
        o \in 0..2}

ValidateValues ==
    {OtherVal}
    \cup {StrVal(t) : t \in Strings(Whitespace, MaxBlankLen)}
    \cup {StrVal(t) : t \in
            { Sample_123_ab, Sample_1234_ab, Sample_123_a1,
              <<"1">>, <<"1", ".", "5">>, <<"a">>, <<" ", "7", " ">>,
              <<"a", "@", "b", ".", "c", "o">>, <<"a", "@", "b">>,
              <<"a", " ", "b", "@", "c", ".", "c", "o", "m">>,
              <<"+", "1", " ", "2">>, <<"1", "2">>,
              RedBlue[1], RedBlue[1] \o <<" ">>, <<"G", "r", "e", "e", "n">> }}

InitValidate ==
    /\ DbIdle
    /\ pc = "validate"
    /\ inp \in [field_def : ValidateFieldDefs, value : ValidateValues]
    /\ out = Valid

ValidateCall ==
    /\ pc = "validate"
    /\ out' = _validate_field_value(inp.field_def, inp.value)
    /\ pc' = "validated"
    /\ UNCHANGED inp
    /\ DbUnchanged

NextValidate == ValidateCall

SpecValidate == InitValidate /\ [][NextValidate]_vars

\* a JSON value that is null, the empty string or made of whitespace only
IsBlank(v) == v.tag # "str" \/ \A i \in DOMAIN v.text : IsSpace(v.text[i])

\* C10: for a field definition with required = false, of any type, with or
\* without a pattern or options, _validate_field_value returns ok for the
\* empty string, for null and for any whitespace-only value
C10_OptionalBlankPasses ==
    (pc = "validated" /\ ~inp.field_def.required /\ IsBlank(inp.value)) =>
        out = Valid

\* a whitespace-only value has passed for an optional select field that has
\* options and a pattern
C10_Witness ==
    /\ pc = "validated"
    /\ ~inp.field_def.required
    /\ inp.field_def.type = select_t
    /\ "pattern" \in DOMAIN inp.field_def
    /\ GetOr(inp.field_def, "options", <<>>) = RedBlue
    /\ inp.value = StrVal(<<" ", "\n">>)
    /\ out = Valid

\* C11: for a field definition with required = true, of any type,
\* _validate_field_value on an empty, null or whitespace-only value fails with
\* "Missing required field: {label}" holding that field's label, never with a
\* type or format message
C11_RequiredBlankIsMissing ==
    (pc = "validated" /\ inp.field_def.required /\ IsBlank(inp.value)) =>
        /\ ~out.ok
        /\ out.err.text = "Missing required field: {label}"
        /\ out.err.label = inp.field_def.label

\* a whitespace-only value has been refused as missing for a required select
\* field that has options and a pattern
C11_Witness ==
    /\ pc = "validated"
    /\ inp.field_def.required
    /\ inp.field_def.type = select_t
    /\ "pattern" \in DOMAIN inp.field_def
    /\ GetOr(inp.field_def, "options", <<>>) = RedBlue
    /\ inp.value = StrVal(<<" ">>)
    /\ out.err = Err("Missing required field: {label}", <<"F">>)

\* the value fails the check of the field's type: no float for a number, no
\* match of EMAIL_RE or TEL_RE for an email or a tel, no member of the
\* non-empty options for a select
FailsType(fd, value) ==
    \/ fd.type = number_t /\ ~IsFloat(value)
    \/ fd.type = email_t /\ ~EmailMatch(Strip(value))
    \/ fd.type = tel_t /\ ~TelMatch(Strip(value))
    \/ /\ fd.type = select_t
       /\ GetOr(fd, "options", <<>>) # <<>>
       /\ value \notin Range(fd.options)

TypeMessage(fd) ==
    CASE fd.type = number_t -> "{label} must be a number."
      [] fd.type = email_t -> "{label} must be a valid email."
      [] fd.type = tel_t -> "{label} must be a valid phone."
      [] fd.type = select_t -> "{label} must be one of the provided options."
      [] OTHER -> ""

FormatMessage == "{label} is not in the required format."

\* C15: the checks run in the order required, type, pattern and only the
\* first failure is reported: a blank value of a required field gets the
\* missing message, a non-empty value that fails the type check gets the type
\* message whether or not it matches the pattern, and the format message is
\* returned only for a non-empty value that passes the type check and does
\* not match the pattern
C15_FirstFailureWins ==
    pc = "validated" =>
        LET fd == inp.field_def
            value == NormValue(inp.value)
            blank == Strip(value) = <<>>
        IN  /\ (blank /\ fd.required) => out.err.text = "Missing required field: {label}"
            /\ (~blank /\ FailsType(fd, value)) =>
                  ~out.ok /\ out.err.text = TypeMessage(fd)
            /\ out.err.text = FormatMessage =>
                  /\ ~blank
                  /\ ~FailsType(fd, value)
                  /\ "pattern" \in DOMAIN fd
                  /\ ~FullMatch(fd.pattern, value)
            /\ (~blank /\ ~FailsType(fd, value) /\ "pattern" \in DOMAIN fd
                  /\ ~FullMatch(fd.pattern, value)) =>
                  ~out.ok /\ out.err.text = FormatMessage

\* "123-a1" for a number field with the pattern of "XXX-AA" fails both the
\* type check and the pattern and has been refused with the type message
C15_Witness ==
    /\ pc = "validated"
    /\ inp.field_def.type = number_t
    /\ "pattern" \in DOMAIN inp.field_def
    /\ inp.field_def.format = FormatExample
    /\ inp.value = StrVal(Sample_123_a1)
    /\ ~FullMatch(inp.field_def.pattern, Sample_123_a1)
    /\ out.err = Err("{label} must be a number.", <<"F">>)

-----------------------------------------------------------------------------
(* The request handlers.  A request body is a dict; a URL id is            *)
(* [wellFormed, oid]: ObjectId(...) raises on one that is not well formed.  *)

\* re.sub(r"[^a-zA-Z0-9]+", "-", title).strip("-")
IsAlnum(c) == IsAlpha(c) \/ IsDigit(c)
Dashed(title) ==
    LET d == Compact([i \in DOMAIN title |->
                        IF IsAlnum(title[i]) THEN title[i]
                        ELSE IF i > 1 /\ ~IsAlnum(title[i - 1]) THEN Gone ELSE "-"])
        keep == {i \in DOMAIN d : d[i] # "-"}
    IN  IF keep = {} THEN <<>>
        ELSE SubSeq(d, CHOOSE i \in keep : \A j \in keep : i <= j,
                       CHOOSE i \in keep : \A j \in keep : j <= i)

HasSlug(col, slug) == \E i \in DOMAIN col : col[i].slug = slug

\* col.find_one({"slug": slug}): the index of the first match, 0 for None
FindOne(col, slug) ==
    IF HasSlug(col, slug)
    THEN CHOOSE i \in DOMAIN col :
            col[i].slug = slug /\ \A j \in 1..(i - 1) : col[j].slug # slug
    ELSE 0

\* slugify, src/create_form.py:42-46; uuid is uuid.uuid4().hex[:8]
slugify(title, col, uuid) ==
    LET t == IF title # <<>> THEN title ELSE <<"f", "o", "r", "m">>
        base == IF Lower(Dashed(t)) # <<>> THEN Lower(Dashed(t))
                ELSE <<"f", "o", "r", "m">>
    IN  IF HasSlug(col, base) THEN base \o <<"-">> \o uuid ELSE base

\* HEX_RE = ^#([0-9a-fA-F]{6})$  (line 38), matched from the start
IsHexDigit(c) == IsDigit(c) \/ LowerChar(c) \in {"a", "b", "c", "d", "e", "f"}
HexMatch(val) ==
    /\ Len(val) \in {7, 8}
    /\ val[1] = "#"
    /\ \A i \in 2..7 : IsHexDigit(val[i])
    /\ Len(val) = 8 => val[8] = "\n"

\* DEFAULT_THEME, lines 27-36
DEFAULT_THEME ==
    [key |-> <<"s", "e", "a">>,
     name |-> <<"S", "e", "a", " ", "B", "l", "u", "e">>,
     brand |-> <<"#", "0", "e", "a", "5", "e", "9">>,
     ok |-> <<"#", "1", "6", "a", "3", "4", "a">>,
     ink |-> <<"#", "0", "b", "1", "3", "2", "0">>,
     muted |-> <<"#", "6", "4", "7", "4", "8", "b">>,
     ring |-> <<"#", "e", "5", "e", "7", "e", "b">>,
     soft |-> <<"#", "f", "6", "f", "8", "f", "b">>]

\* _sanitize_hex, lines 69-72
_sanitize_hex(theme_in, k, fallback) ==
    IF k \in DOMAIN theme_in /\ HexMatch(theme_in[k]) THEN theme_in[k] ELSE fallback

\* _sanitize_theme, lines 74-87; a theme that is no dict is NotADict
_sanitize_theme(theme_in) ==
    IF ~IsDict(theme_in) THEN DEFAULT_THEME
    ELSE [key |-> Take(GetOr(theme_in, "key", DEFAULT_THEME.key), 40),
          name |-> Take(GetOr(theme_in, "name", DEFAULT_THEME.name), 60),
          brand |-> _sanitize_hex(theme_in, "brand", DEFAULT_THEME.brand),
          ok |-> _sanitize_hex(theme_in, "ok", DEFAULT_THEME.ok),
          ink |-> _sanitize_hex(theme_in, "ink", DEFAULT_THEME.ink),
          muted |-> _sanitize_hex(theme_in, "muted", DEFAULT_THEME.muted),
          ring |-> _sanitize_hex(theme_in, "ring", DEFAULT_THEME.ring),
          soft |-> _sanitize_hex(theme_in, "soft", DEFAULT_THEME.soft)]

\* an id string of a URL or a body: [wellFormed, oid], ObjectId(...) raising
\* on one that is not well formed; NoId stands for None, EmptyId for ""
IdStr(oid) == [wellFormed |-> TRUE, oid |-> oid]
BadIdStr == [wellFormed |-> FALSE, oid |-> 1]
EmptyId == [wellFormed |-> FALSE, oid |-> 0]
NoId == [wellFormed |-> FALSE, oid |-> -1]

\* form_image_id after lines 263-268: None unless a well-formed ObjectId
ImageId(data) ==
    IF "form_image_id" \in DOMAIN data /\ data.form_image_id.wellFormed
    THEN data.form_image_id ELSE NoId

\* _field_map and _field_order, lines 181-185
_field_order(form) ==
    SelectSeq([i \in DOMAIN form.fields |-> GetOr(form.fields[i], "id", <<>>)], NonEmpty)
_field_map(form) ==
    [fid \in Range(_field_order(form)) |->
        form.fields[CHOOSE i \in DOMAIN form.fields :
                        /\ GetOr(form.fields[i], "id", <<>>) = fid
                        /\ \A j \in (i + 1)..Len(form.fields) :
                              GetOr(form.fields[j], "id", <<>>) # fid]]

\* a response: the request it answers, the status, the error message
Response(op, args, status, err) ==
    [op |-> op, args |-> args, status |-> status, err |-> err]

\* the error strings of the handlers, which interpolate nothing
Msg(text) == Err(text, <<>>)

Tick == now' = now + 1

\* save_form, src/create_form.py:251-288
save_form(data, uuid) ==
    LET title == Take(Strip(GetOr(data, "title", <<>>)), MAX_TITLE_LEN)
        description == Take(Strip(GetOr(data, "description", <<>>)), MAX_DESC_LEN)
        theme == _sanitize_theme(IF "theme" \in DOMAIN data THEN data.theme ELSE NotADict)
        res == _sanitize_fields(IF "fields" \in DOMAIN data THEN data.fields
                                ELSE ListPayload(<<>>))
        slug == slugify(title, forms, uuid)
        doc == [_id |-> nextId, title |-> title, description |-> description,
                theme |-> theme, form_image_id |-> ImageId(data),
                fields |-> res.fields, slug |-> slug,
                created_at |-> now, updated_at |-> now, suspended |-> FALSE]
    IN  /\ Tick
        /\ UNCHANGED subs
        /\ IF title = <<>>
           THEN /\ resp' = Response("save_form", [data |-> data], 400,
                                    Msg("Form title is required."))
                /\ UNCHANGED <<forms, nextId>>
           ELSE IF IsErr(res.err)
           THEN /\ resp' = Response("save_form", [data |-> data], 400, res.err)
                /\ UNCHANGED <<forms, nextId>>
           ELSE /\ forms' = Append(forms, doc)
                /\ nextId' = nextId + 1
                /\ resp' = Response("save_form", [data |-> data, slug |-> slug], 201, NoErr)

\* the update document of update_form, lines 317-358, for a body whose
\* fields sanitize to fields (None when the body has none)
UpdateDoc(data, fields) ==
    LET description == Take(Strip(GetOr(data, "description", <<>>)), MAX_DESC_LEN)
        image == data.form_image_id
    IN  [updated_at |-> now]
        @@ (IF "title" \in DOMAIN data
            THEN [title |-> Take(Strip(data.title), MAX_TITLE_LEN)] ELSE <<>>)
        @@ (IF description # <<>> THEN [description |-> description] ELSE <<>>)
        @@ (IF "theme" \in DOMAIN data
            THEN [theme |-> _sanitize_theme(data.theme)] ELSE <<>>)
        @@ (IF "form_image_id" \in DOMAIN data /\ (image.wellFormed \/ image = EmptyId)
            THEN [form_image_id |-> image] ELSE <<>>)
        @@ (IF "fields" \in DOMAIN data THEN [fields |-> fields] ELSE <<>>)
        @@ (IF "suspended" \in DOMAIN data
            THEN [suspended |-> data.suspended] ELSE <<>>)

\* update_form with the update written before the fields are sanitized: a
\* failed sanitization keeps the other properties of the request
update_form_WritesBeforeSanitize(slug, data) ==
    LET i == FindOne(forms, slug)
        res == _sanitize_fields(data.fields)
        failed == "fields" \in DOMAIN data /\ IsErr(res.err)
        doc == UpdateDoc(IF failed THEN [k \in DOMAIN data \ {"fields"} |-> data[k]]
                         ELSE data, res.fields)
    IN  /\ Tick
        /\ UNCHANGED <<subs, nextId>>
        /\ IF i = 0
           THEN /\ resp' = Response("update_form", [slug |-> slug, data |-> data], 404,
                                    Msg("Form not found"))
                /\ UNCHANGED forms
           ELSE IF "title" \in DOMAIN data /\ Strip(data.title) = <<>>
           THEN /\ resp' = Response("update_form", [slug |-> slug, data |-> data], 400,
                                    Msg("Form title cannot be empty."))
                /\ UNCHANGED forms
           ELSE /\ forms' = [forms EXCEPT ![i] = doc @@ @]
                /\ resp' = IF failed
                           THEN Response("update_form", [slug |-> slug, data |-> data],
                                         400, res.err)
                           ELSE Response("update_form", [slug |-> slug, data |-> data],
                                         200, NoErr)

\* update_form, src/create_form.py:307-361
update_form(slug, data) ==
    LET i == FindOne(forms, slug)
        res == _sanitize_fields(data.fields)
    IN  /\ Tick
        /\ UNCHANGED <<subs, nextId>>
        /\ IF i = 0
           THEN /\ resp' = Response("update_form", [slug |-> slug, data |-> data], 404,
                                    Msg("Form not found"))
                /\ UNCHANGED forms
           ELSE IF "title" \in DOMAIN data /\ Strip(data.title) = <<>>
           THEN /\ resp' = Response("update_form", [slug |-> slug, data |-> data], 400,
                                    Msg("Form title cannot be empty."))
                /\ UNCHANGED forms
           ELSE IF "fields" \in DOMAIN data /\ IsErr(res.err)
           THEN /\ resp' = Response("update_form", [slug |-> slug, data |-> data], 400,
                                    res.err)
                /\ UNCHANGED forms
           ELSE /\ forms' = [forms EXCEPT ![i] = UpdateDoc(data, res.fields) @@ @]
                /\ resp' = Response("update_form", [slug |-> slug, data |-> data], 200,
                                    NoErr)

\* request.form.get(fid, "")
FormGet(formdata, fid) == IF fid \in DOMAIN formdata THEN formdata[fid] ELSE <<>>

\* lines 398-403: the value submitted for field f, the default of a select
\* field standing in for a blank one
SubmittedValue(f, formdata) ==
    LET value == FormGet(formdata, GetOr(f, "id", <<>>))
    IN  IF f.type = select_t /\ Strip(value) = <<>> /\ GetOr(f, "default", <<>>) # <<>>
        THEN f.default ELSE value

\* the keys of a dict filled by assigning to ids in order: each id once, at
\* the place of its first assignment
KeyOrder(ids) ==
    SelectSeq([k \in DOMAIN ids |->
                  IF \E j \in 1..(k - 1) : ids[j] = ids[k] THEN <<>> ELSE ids[k]],
              NonEmpty)

\* submit_form without the check of the suspended flag
submit_form_IgnoresSuspended(slug, formdata) ==
    LET i == FindOne(forms, slug)
        form == forms[i]
        checked == [k \in DOMAIN form.fields |->
                      _validate_field_value(form.fields[k],
                          StrVal(SubmittedValue(form.fields[k], formdata)))]
        failing == {k \in DOMAIN checked :
                        GetOr(form.fields[k], "id", <<>>) # <<>> /\ ~checked[k].ok}
        fmap == _field_map(form)
        payload == [_id |-> nextId, form_id |-> form._id, slug |-> slug,
                    created_at |-> now,
                    fields |-> [fid \in DOMAIN fmap |-> SubmittedValue(fmap[fid], formdata)],
                    order |-> KeyOrder(_field_order(form))]
        args == [slug |-> slug, formdata |-> formdata]
    IN  /\ Tick
        /\ UNCHANGED forms
        /\ IF i = 0
           THEN /\ resp' = Response("submit_form", args, 404, Msg("Form not found"))
                /\ UNCHANGED <<subs, nextId>>
           ELSE IF failing # {}
           THEN /\ resp' = Response("submit_form", args, 400,
                        checked[CHOOSE k \in failing : \A m \in failing : k <= m].err)
                /\ UNCHANGED <<subs, nextId>>
           ELSE /\ subs' = Append(subs, payload)
                /\ nextId' = nextId + 1
                /\ resp' = Response("submit_form", args, 200, NoErr)

\* submit_form, src/create_form.py:373-410
submit_form(slug, formdata) ==
    LET i == FindOne(forms, slug)
        form == forms[i]
        checked == [k \in DOMAIN form.fields |->
                      _validate_field_value(form.fields[k],
                          StrVal(SubmittedValue(form.fields[k], formdata)))]
        failing == {k \in DOMAIN checked :
                        GetOr(form.fields[k], "id", <<>>) # <<>> /\ ~checked[k].ok}
        fmap == _field_map(form)
        payload == [_id |-> nextId, form_id |-> form._id, slug |-> slug,
                    created_at |-> now,
                    fields |-> [fid \in DOMAIN fmap |-> SubmittedValue(fmap[fid], formdata)],
                    order |-> KeyOrder(_field_order(form))]
        args == [slug |-> slug, formdata |-> formdata]
    IN  /\ Tick
        /\ UNCHANGED forms
        /\ IF i = 0
           THEN /\ resp' = Response("submit_form", args, 404, Msg("Form not found"))
                /\ UNCHANGED <<subs, nextId>>
           ELSE IF form.suspended
           THEN /\ resp' = Response("submit_form", args, 403, NoErr)
                /\ UNCHANGED <<subs, nextId>>
           ELSE IF failing # {}
           THEN /\ resp' = Response("submit_form", args, 400,
                        checked[CHOOSE k \in failing : \A m \in failing : k <= m].err)
                /\ UNCHANGED <<subs, nextId>>
           ELSE /\ subs' = Append(subs, payload)
                /\ nextId' = nextId + 1
                /\ resp' = Response("submit_form", args, 200, NoErr)

\* the "fields" of the body of an update: a JSON object is the sequence of
\* its (field id, value) pairs in document order, a value being a string or
\* null; NotAnObject is any other truthy value
Pairs(pairs) == [isDict |-> TRUE, pairs |-> pairs]
NotAnObject == [isDict |-> FALSE, pairs |-> <<>>]
NewFields(data) == IF "fields" \in DOMAIN data THEN data.fields ELSE Pairs(<<>>)

\* str(val) if val is not None else ""
StrOf(val) == NormValue(val)

\* sub.fields with the pairs of ids in allowed written over it
Merged(old, pairs, allowed) ==
    LET written == {k \in DOMAIN pairs : pairs[k][1] \in allowed}
        ids == {pairs[k][1] : k \in written}
    IN  [fid \in DOMAIN old \cup ids |->
            IF fid \in ids
            THEN StrOf(pairs[CHOOSE k \in written :
                                /\ pairs[k][1] = fid
                                /\ \A m \in written : pairs[m][1] = fid => m <= k][2])
            ELSE old[fid]]

\* the key order of sub.fields after the same writes: a new key goes last
MergedOrder(old, pairs, allowed) ==
    KeyOrder(old \o SelectSeq([k \in DOMAIN pairs |->
                                  IF pairs[k][1] \in allowed THEN pairs[k][1] ELSE <<>>],
                              NonEmpty))

\* subs.find_one({"_id": oid, "slug": slug}): its index, 0 for None
FindSub(sub_id, slug) ==
    IF \E k \in DOMAIN subs : subs[k]._id = sub_id.oid /\ subs[k].slug = slug
    THEN CHOOSE k \in DOMAIN subs : subs[k]._id = sub_id.oid /\ subs[k].slug = slug
    ELSE 0

\* the replies of both update routes before the merge: lines 476-491 of
\* src/create_form.py, lines 155-170 of src/admin.py
UpdateRefused(op, slug, sub_id, data) ==
    LET args == [slug |-> slug, sub_id |-> sub_id, data |-> data]
    IN  IF FindOne(forms, slug) = 0
        THEN Response(op, args, 404, Msg("Form not found"))
        ELSE IF ~sub_id.wellFormed
        THEN Response(op, args, 400, Msg("Invalid submission id"))
        ELSE IF FindSub(sub_id, slug) = 0
        THEN Response(op, args, 404, Msg("Submission not found"))
        ELSE IF ~NewFields(data).isDict
        THEN Response(op, args, 400, Msg("Invalid payload"))
        ELSE Response(op, args, 200, NoErr)

\* update_submission, src/create_form.py:469-504
update_submission(slug, sub_id, data) ==
    LET refused == UpdateRefused("update_submission", slug, sub_id, data)
        fmap == _field_map(forms[FindOne(forms, slug)])
        k == FindSub(sub_id, slug)
        pairs == NewFields(data).pairs
        checked == [m \in DOMAIN pairs |->
                      IF pairs[m][1] \in DOMAIN fmap
                      THEN _validate_field_value(fmap[pairs[m][1]],
                                                 StrVal(StrOf(pairs[m][2])))
                      ELSE Valid]
        failing == {m \in DOMAIN pairs : ~checked[m].ok}
    IN  /\ Tick
        /\ UNCHANGED <<forms, nextId>>
        /\ IF refused.status # 200
           THEN resp' = refused /\ UNCHANGED subs
           ELSE IF failing # {}
           THEN /\ resp' = [refused EXCEPT
                              !.status = 400,
                              !.err = checked[CHOOSE m \in failing :
                                                \A n \in failing : m <= n].err]
                /\ UNCHANGED subs
           ELSE /\ subs' = [subs EXCEPT
                              ![k].fields = Merged(@, pairs, DOMAIN fmap),
                              ![k].order = MergedOrder(@, pairs, DOMAIN fmap)]
                /\ resp' = refused

\* update_submission of the admin blueprint, src/admin.py:149-177
admin_update_submission(slug, sub_id, data) ==
    LET refused == UpdateRefused("admin_update_submission", slug, sub_id, data)
        k == FindSub(sub_id, slug)
        pairs == NewFields(data).pairs
    IN  /\ Tick
        /\ UNCHANGED <<forms, nextId>>
        /\ resp' = refused
        /\ IF refused.status # 200
           THEN UNCHANGED subs
           ELSE subs' = [subs EXCEPT
                           ![k].fields = Merged(@, pairs, {pairs[m][1] : m \in DOMAIN pairs}),
                           ![k].order = MergedOrder(@, pairs,
                                                    {pairs[m][1] : m \in DOMAIN pairs})]

\* suspend_form, src/admin.py:194-210
suspend_form(slug, data) ==
    LET i == FindOne(forms, slug)
        suspended == IF "suspended" \in DOMAIN data THEN data.suspended ELSE TRUE
        args == [slug |-> slug, data |-> data]
    IN  /\ Tick
        /\ UNCHANGED <<subs, nextId>>
        /\ IF i = 0
           THEN /\ resp' = Response("suspend_form", args, 404, Msg("Form not found"))
                /\ UNCHANGED forms
           ELSE /\ forms' = [forms EXCEPT ![i].suspended = suspended,
                                          ![i].updated_at = now]
                /\ resp' = Response("suspend_form", args, 200, NoErr)

-----------------------------------------------------------------------------
(* The requests of a bounded run against an empty store *)

MaxRequests == 3

Name == <<"N", "a", "m", "e">>
Age == <<"A", "g", "e">>
Color == <<"C", "o", "l", "o", "r">>
Code == <<"C", "o", "d", "e">>
Survey == <<"S", "u", "r", "v", "e", "y">>
Poll == <<"P", "o", "l", "l">>
Blank == <<" ">>
Seven == <<"7">>
Green == <<"G", "r", "e", "e", "n">>
MissingSlug == <<"n", "o", "p", "e">>

\* a required text field, a number field, a select field with a default
SurveyFields ==
    ListPayload(<< [type |-> text_t, label |-> Name, required |-> TRUE],
                   [type |-> number_t, label |-> Age],
                   [type |-> select_t, label |-> Color,
                    options |-> ListVal(RedBlue), default |-> RedBlue[1]] >>)

\* a valid field followed by a select field without options
OptionlessFields ==
    ListPayload(<< [type |-> text_t, label |-> Name],
                   [type |-> select_t, label |-> Color] >>)

\* a text field with the format mask "XXX-AA"
CodeFields ==
    ListPayload(<< [type |-> text_t, label |-> Code, format |-> FormatExample] >>)

\* a single required select field with options ["Red", "Blue"], default "Red"
PollFields ==
    ListPayload(<< [type |-> select_t, label |-> Color, required |-> TRUE,
                    options |-> ListVal(RedBlue), default |-> RedBlue[1]] >>)

\* a single optional select field with options "Red,Blue" and no default
ColorFields ==
    ListPayload(<< [type |-> select_t, label |-> Color,
                    options_text |-> StrVal(<<"R", "e", "d", ",", "B", "l", "u", "e">>)] >>)

White == <<"#", "f", "f", "f", "f", "f", "f">>

SaveBodies ==
    { [title |-> Survey, fields |-> SurveyFields, description |-> <<" ", "d">>,
       theme |-> [brand |-> White, ok |-> <<"r", "e", "d">>]],
      [title |-> Poll, fields |-> PollFields],
      [title |-> Color, fields |-> ColorFields],
      [title |-> Blank, fields |-> SurveyFields],
      [title |-> Survey, fields |-> OptionlessFields],
      [title |-> Survey, fields |-> NotAList],
      [title |-> Survey] }

UpdateBodies ==
    { [title |-> Poll, description |-> <<"d">>, theme |-> NotADict,
       suspended |-> TRUE, fields |-> OptionlessFields],
      [title |-> Poll, suspended |-> TRUE, form_image_id |-> IdStr(7)],
      [fields |-> CodeFields, form_image_id |-> BadIdStr],
      [title |-> Blank, suspended |-> TRUE] }

SubmitBodies ==
    { <<>>,
      (Lower(Name) :> <<"A", "l">>) @@ (Lower(Age) :> Seven) @@ (Lower(Color) :> Blank),
      (Lower(Name) :> <<"A", "l">>) @@ (Lower(Age) :> <<"x">>),
      (Lower(Name) :> <<"A", "l">>) @@ (Lower(Color) :> Green),
      (Lower(Name) :> <<"A", "l">>) @@ (Lower(Code) :> Sample_123_ab) }

EditBodies ==
    { [fields |-> Pairs(<< <<Lower(Age), StrVal(<<"x">>)>> >>)],
      [fields |-> Pairs(<< <<Lower(Age), StrVal(<<"8">>)>>,
                           <<<<"z">>, StrVal(<<"1">>)>> >>)],
      [fields |-> Pairs(<< <<Lower(Name), OtherVal>> >>)],
      [fields |-> NotAnObject] }

SuspendBodies == { <<>>, [suspended |-> FALSE] }

\* uuid.uuid4().hex[:8]
UuidSamples == { Repeat("0", 8), Repeat("f", 8) }

\* the slugs a request may name: those in the store and one that is not
RequestSlugs == {forms[i].slug : i \in DOMAIN forms} \cup {MissingSlug}

\* the submission ids a request may name: those handed out and a malformed one
RequestIds == {IdStr(n) : n \in 1..(nextId - 1)} \cup {BadIdStr}

Init ==
    /\ DbIdle
    /\ pc = "serving"
    /\ inp = <<>>
    /\ out = <<>>

CallUnchanged == UNCHANGED <<pc, inp, out>>

SaveForm ==
    \E data \in SaveBodies, uuid \in UuidSamples :
        now < MaxRequests /\ save_form(data, uuid) /\ CallUnchanged

UpdateForm ==
    \E slug \in RequestSlugs, data \in UpdateBodies :
        now < MaxRequests /\ update_form(slug, data) /\ CallUnchanged

SubmitForm ==
    \E slug \in RequestSlugs, formdata \in SubmitBodies :
        now < MaxRequests /\ submit_form(slug, formdata) /\ CallUnchanged

UpdateSubmission ==
    \E slug \in RequestSlugs, sub_id \in RequestIds, data \in EditBodies :
        now < MaxRequests /\ update_submission(slug, sub_id, data) /\ CallUnchanged

AdminUpdateSubmission ==
    \E slug \in RequestSlugs, sub_id \in RequestIds, data \in EditBodies :
        now < MaxRequests /\ admin_update_submission(slug, sub_id, data) /\ CallUnchanged

SuspendForm ==
    \E slug \in RequestSlugs, data \in SuspendBodies :
        now < MaxRequests /\ suspend_form(slug, data) /\ CallUnchanged

Next ==
    \/ SaveForm
    \/ UpdateForm
    \/ SubmitForm
    \/ UpdateSubmission
    \/ AdminUpdateSubmission
    \/ SuspendForm

Spec == Init /\ [][Next]_vars

UpdateOps == {"update_submission", "admin_update_submission"}

\* the pairs of an update request that name a declared field of its form,
\* and those of them whose value fails _validate_field_value against the
\* stored definition of that field
DeclaredPairs(r, col) ==
    LET fmap == _field_map(col[FindOne(col, r.args.slug)])
        pairs == NewFields(r.args.data).pairs
    IN  {m \in DOMAIN pairs : pairs[m][1] \in DOMAIN fmap}
InvalidPairs(r, col) ==
    LET fmap == _field_map(col[FindOne(col, r.args.slug)])
        pairs == NewFields(r.args.data).pairs
    IN  {m \in DeclaredPairs(r, col) :
            ~_validate_field_value(fmap[pairs[m][1]], pairs[m][2]).ok}

\* the request of this step reached an existing submission of an existing
\* form with a well-formed body
ReachesSubmission(r) ==
    /\ r.op \in UpdateOps
    /\ FindOne(forms, r.args.slug) # 0
    /\ r.args.sub_id.wellFormed
    /\ FindSub(r.args.sub_id, r.args.slug) # 0
    /\ NewFields(r.args.data).isDict

\* C1: through either update route, every value a successful update wrote
\* for a declared field passes _validate_field_value against the stored
\* definition of that field, and an update with a value that fails it leaves
\* the stored submission unchanged
C1_EditsStayValid ==
    [][ReachesSubmission(resp') =>
          /\ resp'.status = 200 => InvalidPairs(resp', forms) = {}
          /\ InvalidPairs(resp', forms) # {} => subs' = subs]_vars

\* the same of the route of src/create_form.py alone (holds)
ApiEditsStayValid ==
    [][(ReachesSubmission(resp') /\ resp'.op = "update_submission") =>
          /\ resp'.status = 200 => InvalidPairs(resp', forms) = {}
          /\ InvalidPairs(resp', forms) # {} => subs' = subs /\ resp'.status = 400]_vars

\* the request body of this step fails _sanitize_fields
SanitizeFails(r) ==
    \/ /\ r.op = "save_form"
       /\ IsErr(_sanitize_fields(IF "fields" \in DOMAIN r.args.data
                                 THEN r.args.data.fields ELSE ListPayload(<<>>)).err)
    \/ /\ r.op = "update_form"
       /\ "fields" \in DOMAIN r.args.data
       /\ IsErr(_sanitize_fields(r.args.data.fields).err)

\* C8: a save_form or update_form request whose fields fail _sanitize_fields
\* changes no stored form: nothing is inserted, and no title, description,
\* theme, suspended flag, updated_at or subset of the fields is written
C8_FailedSanitizePersistsNothing ==
    [][SanitizeFails(resp') => forms' = forms /\ resp'.status # 200 /\ resp'.status # 201]_vars

\* an update_form request with a new title, description, theme and suspended
\* flag and a select field without options after a valid field was refused
C8_Witness ==
    /\ resp.op = "update_form"
    /\ resp.status = 400
    /\ IsPerFieldErr(resp.err)
    /\ DOMAIN resp.args.data = {"title", "description", "theme", "suspended", "fields"}
    /\ FindOne(forms, resp.args.slug) # 0
    /\ forms[FindOne(forms, resp.args.slug)].title = Survey

-----------------------------------------------------------------------------
(* Calls of format_to_regex on bounded formats, each followed by the        *)
(* re.fullmatch of the compiled pattern against a bounded value             *)

MaxFmtLen == 3
MaxValueLen == 3

FormatAlphabet == {"X", "A", "*", "-"}
ValueAlphabet == {"1", "a", "-", "\n"}

InitFormat ==
    /\ DbIdle
    /\ pc = "format"
    /\ inp \in [fmt : Strings(FormatAlphabet, MaxFmtLen),
                value : Strings(ValueAlphabet, MaxValueLen)]
    /\ out = [patt |-> <<>>, matched |-> FALSE]

FormatCall ==
    /\ pc = "format"
    /\ out' = [out EXCEPT !.patt = format_to_regex(inp.fmt)]
    /\ pc' = "compiled"
    /\ UNCHANGED inp
    /\ DbUnchanged

FullMatchCall ==
    /\ pc = "compiled"
    /\ out' = [out EXCEPT !.matched = FullMatch(out.patt, inp.value)]
    /\ pc' = "matched"
    /\ UNCHANGED inp
    /\ DbUnchanged

NextFormat == FormatCall \/ FullMatchCall

SpecFormat == InitFormat /\ [][NextFormat]_vars

\* the length of the maximal run of one character that starts at fmt[i]
RunFrom(fmt, i) ==
    Cardinality({j \in i..Len(fmt) : \A m \in i..j : fmt[m] = fmt[i]})

\* the format with every run of "*" replaced by a single "*"
CollapseStars(fmt) ==
    Compact([i \in DOMAIN fmt |->
                IF fmt[i] = "*" /\ i > 1 /\ fmt[i - 1] = "*" THEN Gone ELSE fmt[i]])

\* what the mask language says of a value: from position j on, the value is
\* made of one segment per maximal run of the format from position i on: n
\* digits for a run of n "X", n ASCII letters for a run of n "A", one or more
\* characters for a run of "*" (any character when newlines is TRUE, any
\* character but a newline when it is FALSE), the run itself for any other
\* character
RECURSIVE RunsMatch(_, _, _, _, _)
RunsMatch(fmt, i, value, j, newlines) ==
    IF i > Len(fmt) THEN j = Len(value) + 1
    ELSE LET n == RunFrom(fmt, i)
             rest(k) == RunsMatch(fmt, i + n, value, k, newlines)
         IN  CASE fmt[i] = "X" ->
                    /\ j + n - 1 <= Len(value)
                    /\ \A m \in j..(j + n - 1) : IsDigit(value[m])
                    /\ rest(j + n)
               [] fmt[i] = "A" ->
                    /\ j + n - 1 <= Len(value)
                    /\ \A m \in j..(j + n - 1) : IsAlpha(value[m])
                    /\ rest(j + n)
               [] fmt[i] = "*" ->
                    \E k \in j..Len(value) :
                        /\ newlines \/ \A m \in j..k : value[m] # "\n"
                        /\ rest(k + 1)
               [] OTHER ->
                    /\ j + n - 1 <= Len(value)
                    /\ \A m \in j..(j + n - 1) : value[m] = fmt[i]
                    /\ rest(j + n)

\* the compiled pattern is empty for the empty format and anchored at both
\* ends otherwise, and collapsing the runs of "*" compiles to the same pattern
AnchoredAndCollapsed ==
    /\ inp.fmt = <<>> => out.patt = <<>>
    /\ inp.fmt # <<>> => out.patt[1] = Bol /\ out.patt[Len(out.patt)] = Eol
    /\ format_to_regex(CollapseStars(inp.fmt)) = out.patt

\* C16 as stated: format_to_regex groups maximal runs: a run of n "X" matches exactly n
\* digits, a run of n "A" exactly n ASCII letters, a run of "*" of any length
\* one or more of any character, any other run that literal text; the
\* pattern is anchored at both ends, the empty format compiles to the empty
\* string, and replacing a run of "*" by a single "*" yields the same pattern
C16_RunsCompile ==
    pc = "matched" =>
        /\ AnchoredAndCollapsed
        /\ out.matched <=> RunsMatch(inp.fmt, 1, inp.value, 1, TRUE)

\* C16 as amended: the same with a run of "*" matching one or more characters
\* other than a newline (the "." of the pattern ".+" matches no newline)
C16_RunsCompileExceptNewline ==
    pc = "matched" =>
        /\ AnchoredAndCollapsed
        /\ out.matched <=> RunsMatch(inp.fmt, 1, inp.value, 1, FALSE)

\* "X**" has compiled to ^\d.+$ and matched "1a-"
C16_Witness ==
    /\ pc = "matched"
    /\ inp = [fmt |-> <<"X", "*", "*">>, value |-> <<"1", "a", "-">>]
    /\ out.patt = <<Bol, Piece("\\d", 0, <<>>), Piece(".+", 0, <<>>), Eol>>
    /\ out.matched

\* the step answered a submit_form request for a stored form that was not
\* suspended
Submitted ==
    /\ resp'.op = "submit_form"
    /\ FindOne(forms, resp'.args.slug) # 0
    /\ ~forms[FindOne(forms, resp'.args.slug)].suspended

\* the form the request of the step names, and the value it submits for a field
SubmittedForm == forms[FindOne(forms, resp'.args.slug)]
RawValue(f) == FormGet(resp'.args.formdata, f.id)

\* the submission the step stored
StoredSubmission == subs'[Len(subs')]

\* the form has one field, a select with options ["Red", "Blue"], default "Red"
IsRedBlueForm(form) ==
    /\ Len(form.fields) = 1
    /\ form.fields[1].type = select_t
    /\ GetOr(form.fields[1], "options", <<>>) = RedBlue
    /\ GetOr(form.fields[1], "default", <<>>) = RedBlue[1]

\* for the form with one select field, options ["Red", "Blue"], default
\* "Red", required or not: a blank value is stored as "Red", and "Green" is
\* refused with the options message and stores nothing
RedBlueEndToEnd ==
    IsRedBlueForm(SubmittedForm) =>
        LET f == SubmittedForm.fields[1]
        IN  /\ Strip(RawValue(f)) = <<>> =>
                 /\ resp'.status = 200
                 /\ Len(subs') = Len(subs) + 1
                 /\ StoredSubmission.slug = resp'.args.slug
                 /\ StoredSubmission.fields[f.id] = RedBlue[1]
            /\ RawValue(f) = Green =>
                 /\ resp'.status = 400
                 /\ resp'.err.text = "{label} must be one of the provided options."
                 /\ subs' = subs

\* every value the step stored for a select field with non-empty options
\* satisfies Allowed(value, options)
StoredSelectValues(Allowed(_, _)) ==
    resp'.status = 200 =>
        \A k \in DOMAIN SubmittedForm.fields :
            LET f == SubmittedForm.fields[k]
            IN  (f.type = select_t /\ GetOr(f, "options", <<>>) # <<>>) =>
                    Allowed(StoredSubmission.fields[f.id], f.options)

MemberOrEmpty(value, options) == value \in Range(options) \/ value = <<>>
MemberOrBlank(value, options) == value \in Range(options) \/ Strip(value) = <<>>

\* C12: in submit_form, for the form with one select field with
\* options ["Red", "Blue"] and default "Red", a blank value is stored as
\* "Red" (also when the field is required) and "Green" is refused with the
\* options message and stores no submission; every value stored for a select
\* field with non-empty options is a member of the options or the empty string
C12_SelectEndToEnd ==
    [][Submitted => RedBlueEndToEnd /\ StoredSelectValues(MemberOrEmpty)]_vars

\* the same with a whitespace-only value, which an optional select field
\* without a default stores as submitted, counted as empty (holds for forms
\* whose field ids are distinct)
SelectEndToEndOrBlank ==
    [][Submitted => RedBlueEndToEnd /\ StoredSelectValues(MemberOrBlank)]_vars

\* a whitespace-only value for the required select field of the one-field
\* form has been stored as "Red"
DefaultStoodIn ==
    /\ resp.op = "submit_form"
    /\ resp.status = 200
    /\ FindOne(forms, resp.args.slug) # 0
    /\ IsRedBlueForm(forms[FindOne(forms, resp.args.slug)])
    /\ forms[FindOne(forms, resp.args.slug)].fields[1].required
    /\ FormGet(resp.args.formdata, Lower(Color)) = Blank
    /\ subs # <<>>
    /\ subs[Len(subs)].fields[Lower(Color)] = RedBlue[1]

-----------------------------------------------------------------------------
(* The handlers that read submissions: list_submissions of                  *)
(* src/create_form.py and view_form of src/admin.py                         *)

\* str(n) for 0 <= n < 100
DigitChars == <<"0", "1", "2", "3", "4", "5", "6", "7", "8", "9">>
Decimal(n) ==
    IF n < 10 THEN <<DigitChars[n + 1]>>
    ELSE <<DigitChars[(n \div 10) + 1], DigitChars[(n % 10) + 1]>>

\* str(doc["_id"]), and created_at.strftime("%Y-%m-%d %H:%M")
IdText(oid) == <<"o", "i", "d">> \o Decimal(oid)
DateText(t) == <<"0", "0", ":">> \o Decimal(t)

\* the keys "_id" and "created_at_str" of a row
IdKey == <<"_", "i", "d">>
CreatedKey == <<"c", "r", "e", "a", "t", "e", "d", "_", "a", "t", "_", "s", "t", "r">>

\* find({"slug": slug}).sort("created_at", -1): the indices of the
\* submissions of slug, newest first (of two created at the same time the
\* later inserted first)
NewestFirst(slug) ==
    LET S == {k \in DOMAIN subs : subs[k].slug = slug}
        Before(a, b) ==
            \/ subs[a].created_at > subs[b].created_at
            \/ subs[a].created_at = subs[b].created_at /\ a > b
    IN  [r \in 1..Cardinality(S) |->
            CHOOSE a \in S : Cardinality({b \in S : Before(b, a)}) = r - 1]

Min(a, b) == IF a < b THEN a ELSE b
Max(a, b) == IF a > b THEN a ELSE b

\* s[lo:hi] of Python, lo and hi counted from 0, a negative one from the end
PySlice(s, lo, hi) ==
    LET norm(x) == IF x < 0 THEN Max(Len(s) + x, 0) ELSE Min(x, Len(s))
    IN  SubSeq(s, norm(lo) + 1, norm(hi))

\* lines 452-458 of src/create_form.py: the row of one submission
Row(cols, doc) ==
    [c \in {IdKey, CreatedKey} \cup Range(cols) |->
        IF c = CreatedKey THEN DateText(doc.created_at)
        ELSE IF c \in Range(cols)
        THEN (IF c \in DOMAIN doc.fields THEN doc.fields[c] ELSE <<>>)
        ELSE IdText(doc._id)]

\* list_submissions, src/create_form.py:428-467
list_submissions(slug, page_in, per_page_in) ==
    LET i == FindOne(forms, slug)
        args == [slug |-> slug, page |-> page_in, per_page |-> per_page_in]
        page == Max(page_in, 1)
        per_page == Min(Max(per_page_in, 1), 200)
        found == NewestFirst(slug)
        cursor == SubSeq(found, (page - 1) * per_page + 1, Min(page * per_page, Len(found)))
        cols == _field_order(forms[i])
    IN  /\ UNCHANGED <<forms, subs, now, nextId>>
        /\ IF i = 0
           THEN resp' = Response("list_submissions", args, 404, Msg("Form not found"))
           ELSE resp' = Response("list_submissions", args, 200, NoErr)
                        @@ [columns |-> cols,
                            rows |-> [k \in DOMAIN cursor |-> Row(cols, subs[cursor[k]])],
                            page |-> page, per_page |-> per_page, total |-> Len(found)]

\* " ".join(vals)
RECURSIVE JoinSpace(_)
JoinSpace(vals) ==
    IF vals = <<>> THEN <<>>
    ELSE IF Len(vals) = 1 THEN vals[1]
    ELSE vals[1] \o <<" ">> \o JoinSpace(Tail(vals))

\* needle in hay
Contains(hay, needle) ==
    \E i \in 0..(Len(hay) - Len(needle)) : SubSeq(hay, i + 1, i + Len(needle)) = needle

\* Blob without the lowercasing of the values
Blob_CaseSensitive(doc) ==
    JoinSpace([k \in DOMAIN doc.order |-> doc.fields[doc.order[k]]])

\* line 121 of src/admin.py: the values of the submission's fields in stored
\* order, joined by blanks, lowercased
Blob(doc) == Lower(JoinSpace([k \in DOMAIN doc.order |-> doc.fields[doc.order[k]]]))

\* lines 131-133: a listed submission
Listed(doc) == doc @@ [created_at_str |-> DateText(doc.created_at)]

\* math.ceil(total / per_page)
Pages(total, per_page) == (total + per_page - 1) \div per_page

\* view_form, src/admin.py:102-146; page_in is the page parameter read by
\* _int, a negative skip making the cursor raise
view_form(slug, q_in, page_in, per_page_in) ==
    LET i == FindOne(forms, slug)
        form == forms[i]
        args == [slug |-> slug, q |-> q_in, page |-> page_in, per_page |-> per_page_in]
        q == Strip(q_in)
        page == page_in
        per_page == Min(Max(per_page_in, 10), 200)
        all_items == NewestFirst(slug)
        Kept(k) == Contains(Blob(subs[k]), Lower(q))
        filtered == SelectSeq(all_items, Kept)
        skipped == SubSeq(all_items, (page - 1) * per_page + 1,
                          Min(page * per_page, Len(all_items)))
        total == IF q # <<>> THEN Len(filtered) ELSE Len(all_items)
        items == IF q # <<>>
                 THEN PySlice(filtered, (page - 1) * per_page, page * per_page)
                 ELSE skipped
        columns == [k \in DOMAIN form.fields |->
                      [id |-> form.fields[k].id,
                       label |-> IF "label" \in DOMAIN form.fields[k]
                                 THEN form.fields[k].label ELSE form.fields[k].id]]
    IN  /\ UNCHANGED <<forms, subs, now, nextId>>
        /\ IF i = 0
           THEN resp' = Response("view_form", args, 404, Msg("Form not found"))
           ELSE IF q = <<>> /\ (page - 1) * per_page < 0
           THEN resp' = Response("view_form", args, 500, Msg("skip must be >= 0"))
           ELSE resp' = Response("view_form", args, 200, NoErr)
                        @@ [submissions |-> [k \in DOMAIN items |-> Listed(subs[items[k]])],
                            columns |-> columns, q |-> q, page |-> page,
                            per_page |-> per_page, pages |-> Pages(total, per_page),
                            total |-> total]

-----------------------------------------------------------------------------
(* Reads of a store that holds one form and a bounded list of submissions *)

MaxStored == 2

Email == <<"E", "m", "a", "i", "l">>
Zip == <<"z", "i", "p">>

\* the form a save_form request with this title and these fields stores
StoredForm(id, title, fields_in) ==
    [_id |-> id, title |-> title, description |-> <<>>,
     theme |-> _sanitize_theme(NotADict), form_image_id |-> NoId,
     fields |-> _sanitize_fields(fields_in).fields,
     slug |-> slugify(title, <<>>, Repeat("0", 8)),
     created_at |-> 0, updated_at |-> 0, suspended |-> FALSE]

\* a form with the fields name and email, and one with the fields name and
\* "created_at_str"
ViewForms ==
    { StoredForm(1, Survey, ListPayload(<< [type |-> text_t, label |-> Name],
                                           [type |-> text_t, label |-> Email] >>)),
      StoredForm(1, Survey, ListPayload(<< [type |-> text_t, label |-> Name],
                                           [type |-> text_t, label |-> CreatedKey] >>)) }

\* the fields of stored submissions, each with its keys in stored order: as
\* submitted to the current fields, as submitted before "email" was added,
\* with a key that is no field of the form (written by the admin update or
\* left by an edit of the form)
StoredFields ==
    { [slug |-> Lower(Survey), order |-> <<Lower(Name), Lower(Email)>>,
       fields |-> (Lower(Name) :> <<"A">>) @@ (Lower(Email) :> <<>>)],
      [slug |-> Lower(Survey), order |-> <<Lower(Name)>>,
       fields |-> (Lower(Name) :> <<"B">>)],
      [slug |-> Lower(Survey), order |-> <<Lower(Name), Lower(Email)>>,
       fields |-> (Lower(Name) :> <<"a">>) @@ (Lower(Email) :> <<"b">>)],
      [slug |-> Lower(Survey), order |-> <<Lower(Name), CreatedKey, Zip>>,
       fields |-> (Lower(Name) :> <<"a", "b">>) @@ (CreatedKey :> <<"y">>)
                    @@ (Zip :> <<"B">>)],
      [slug |-> Lower(Poll), order |-> <<Lower(Name)>>,
       fields |-> (Lower(Name) :> <<"a", "b">>)] }

\* the submissions collection holding these fields, inserted in this order
Stored(list) ==
    [k \in DOMAIN list |->
        [_id |-> k + 1, form_id |-> 1, slug |-> list[k].slug, created_at |-> k,
         fields |-> list[k].fields, order |-> list[k].order]]

\* more submissions of one form than the smallest page of view_form holds,
\* all but the oldest with a "B"
ManyStored ==
    [k \in 1..12 |->
        [slug |-> Lower(Survey), order |-> <<Lower(Name)>>,
         fields |-> (Lower(Name) :> (IF k = 1 THEN <<"a">> ELSE <<"B">>))]]

ViewStores == {Stored(l) : l \in Lists(StoredFields, MaxStored) \cup {ManyStored}}

ViewQueries == { <<>>, <<" ">>, <<"a", "b">>, <<"a", " ", "b">>, <<" ", "B">> }

InitView ==
    /\ pc = "view"
    /\ forms \in {<<f>> : f \in ViewForms}
    /\ subs \in ViewStores
    /\ now = 13
    /\ nextId = 14
    /\ resp = NoResp
    /\ inp = <<>>
    /\ out = <<>>

ListSubmissions ==
    /\ pc = "view"
    /\ \E slug \in RequestSlugs, page \in 0..2, per_page \in {0, 1, 2, 20} :
          list_submissions(slug, page, per_page)
    /\ pc' = "viewed"
    /\ UNCHANGED <<inp, out>>

ViewForm ==
    /\ pc = "view"
    /\ \E slug \in RequestSlugs, q \in ViewQueries, page \in -1..2, per_page \in {1, 10, 11} :
          view_form(slug, q, page, per_page)
    /\ pc' = "viewed"
    /\ UNCHANGED <<inp, out>>

NextView == ListSubmissions \/ ViewForm

SpecView == InitView /\ [][NextView]_vars

\* the submissions a list_submissions reply shows, in the order of its rows
ShownByList ==
    LET found == NewestFirst(resp.args.slug)
    IN  SubSeq(found, (resp.page - 1) * resp.per_page + 1,
               Min(resp.page * resp.per_page, Len(found)))

\* the reply of list_submissions projects every shown submission onto the
\* columns other than those in except: the columns are the field ids of the
\* form in declaration order, every row holds for each column the stored
\* value of that id or "" when the submission has none, and no key besides
\* the columns, "_id" and "created_at_str"
Projects(except) ==
    LET form == forms[FindOne(forms, resp.args.slug)]
    IN  /\ resp.columns = [k \in DOMAIN form.fields |-> form.fields[k].id]
        /\ Len(resp.rows) = Len(ShownByList)
        /\ \A k \in DOMAIN resp.rows :
             LET row == resp.rows[k]
                 doc == subs[ShownByList[k]]
             IN  /\ \A c \in Range(resp.columns) \ except :
                      /\ c \in DOMAIN row
                      /\ row[c] = IF c \in DOMAIN doc.fields THEN doc.fields[c] ELSE <<>>
                 /\ DOMAIN row \ {IdKey, CreatedKey} \subseteq Range(resp.columns)
                 /\ (form.fields[1].id = Lower(Name) /\ form.fields[2].id = Lower(Email)
                       /\ doc.fields = (Lower(Name) :> <<"B">>)) =>
                      /\ row[Lower(Name)] = <<"B">>
                      /\ row[Lower(Email)] = <<>>

\* C13: for every form and submission, the columns of list_submissions are
\* the form's field ids in declaration order and the projected row has
\* exactly those columns, each holding the submission's stored value for that
\* id or the empty string when the id is missing; stored keys that are no
\* declared field ids never appear; the form [name, email] with the
\* submission {name: "B"} projects to {name: "B", email: ""}
C13_Projection ==
    (resp.op = "list_submissions" /\ resp.status = 200) => Projects({})

\* the same of every column but one named "created_at_str" (holds)
ProjectionUnlessShadowed ==
    (resp.op = "list_submissions" /\ resp.status = 200) => Projects({CreatedKey})

\* the field values of a submission in stored order with sep between them
RECURSIVE Joined(_, _, _)
Joined(doc, k, sep) ==
    IF k > Len(doc.order) THEN <<>>
    ELSE IF k = Len(doc.order) THEN doc.fields[doc.order[k]]
    ELSE doc.fields[doc.order[k]] \o sep \o Joined(doc, k + 1, sep)

\* the submissions of the viewed form that pass the filter of the reply's
\* query against their values joined by sep, newest first
Filtered(sep) ==
    LET Passes(k) ==
            resp.q # <<>> => Contains(Lower(Joined(subs[k], 1, sep)), Lower(resp.q))
    IN  SelectSeq(NewestFirst(resp.args.slug), Passes)

\* the reply of view_form is the page of the filtered submissions: total
\* counts them all, the page (numbered from 1) is their slice
\* [(page-1)*per_page, page*per_page), and it runs from newest to oldest
PageOfFiltered(sep) ==
    LET filtered == Filtered(sep)
        first == (resp.page - 1) * resp.per_page + 1
        last == Min(resp.page * resp.per_page, Len(filtered))
        page == SubSeq(filtered, first, last)
    IN  /\ resp.total = Len(filtered)
        /\ Len(resp.submissions) = Len(page)
        /\ \A k \in DOMAIN page : resp.submissions[k]._id = subs[page[k]]._id
        /\ \A k \in 1..(Len(resp.submissions) - 1) :
              resp.submissions[k].created_at >= resp.submissions[k + 1].created_at

StoredFor(col, slug) == {col[k]._id : k \in {m \in DOMAIN col : col[m].slug = slug}}

\* C17: while the suspended flag of a form is true, no operation (submit_form,
\* update_form, suspend or activate, an update of a submission) adds a
\* submission of that form: the stored submissions of a suspended form do
\* not grow in any step
C17_SuspendedBlocksSubmit ==
    [][\A i \in DOMAIN forms :
          forms[i].suspended =>
              StoredFor(subs', forms[i].slug) \subseteq StoredFor(subs, forms[i].slug)]_vars

\* a submit_form request for a suspended form has been answered 403 and has
\* stored nothing
C17_Witness ==
    /\ resp.op = "submit_form"
    /\ resp.status = 403
    /\ FindOne(forms, resp.args.slug) # 0
    /\ forms[FindOne(forms, resp.args.slug)].suspended
    /\ Lower(Name) \in DOMAIN resp.args.formdata
    /\ StoredFor(subs, resp.args.slug) = {}

-----------------------------------------------------------------------------
(* delete_form of src/admin.py and submit_form of src/create_form.py run as *)
(* two requests whose database operations interleave.  pc holds the place   *)
(* of each request, inp the locals of submit_form, out those of delete_form *)

\* forms.find_one({"slug": slug}) of submit_form, lines 379-384: the form
\* document is read into a local
submit_find(slug, formdata) ==
    LET i == FindOne(forms, slug)
        args == [slug |-> slug, formdata |-> formdata]
    IN  /\ pc.submit = "idle"
        /\ UNCHANGED <<forms, subs, now, nextId, out>>
        /\ IF i = 0
           THEN /\ resp' = Response("submit_form", args, 404, Msg("Form not found"))
                /\ pc' = [pc EXCEPT !.submit = "done"]
                /\ UNCHANGED inp
           ELSE IF forms[i].suspended
           THEN /\ resp' = Response("submit_form", args, 403, NoErr)
                /\ pc' = [pc EXCEPT !.submit = "done"]
                /\ UNCHANGED inp
           ELSE /\ inp' = [slug |-> slug, formdata |-> formdata, form |-> forms[i]]
                /\ pc' = [pc EXCEPT !.submit = "found"]
                /\ UNCHANGED resp

\* the loop of lines 393-407 over the form read before: every value validated
submit_validate ==
    LET form == inp.form
        checked == [k \in DOMAIN form.fields |->
                      _validate_field_value(form.fields[k],
                          StrVal(SubmittedValue(form.fields[k], inp.formdata)))]
        failing == {k \in DOMAIN checked : ~checked[k].ok}
    IN  /\ pc.submit = "found"
        /\ UNCHANGED <<forms, subs, now, nextId, inp, out>>
        /\ IF failing # {}
           THEN /\ resp' = Response("submit_form",
                                    [slug |-> inp.slug, formdata |-> inp.formdata], 400,
                                    checked[CHOOSE k \in failing : \A m \in failing : k <= m].err)
                /\ pc' = [pc EXCEPT !.submit = "done"]
           ELSE /\ pc' = [pc EXCEPT !.submit = "validated"]
                /\ UNCHANGED resp

\* submissions_col.insert_one(payload), lines 409-410
submit_insert ==
    LET form == inp.form
        fmap == _field_map(form)
        payload == [_id |-> nextId, form_id |-> form._id, slug |-> inp.slug,
                    created_at |-> now,
                    fields |-> [fid \in DOMAIN fmap |->
                                   SubmittedValue(fmap[fid], inp.formdata)],
                    order |-> KeyOrder(_field_order(form))]
    IN  /\ pc.submit = "validated"
        /\ subs' = Append(subs, payload)
        /\ nextId' = nextId + 1
        /\ now' = now + 1
        /\ resp' = Response("submit_form", [slug |-> inp.slug, formdata |-> inp.formdata],
                            200, NoErr)
        /\ pc' = [pc EXCEPT !.submit = "done"]
        /\ UNCHANGED <<forms, inp, out>>

\* forms.find_one({"slug": slug}) of delete_form, src/admin.py:219-221
delete_find(slug) ==
    LET i == FindOne(forms, slug)
    IN  /\ pc.delete = "idle"
        /\ UNCHANGED <<forms, subs, now, nextId, inp>>
        /\ IF i = 0
           THEN /\ resp' = Response("delete_form", [slug |-> slug], 404,
                                    Msg("Form not found"))
                /\ out' = [slug |-> slug, form_id |-> 0]
                /\ pc' = [pc EXCEPT !.delete = "done"]
           ELSE /\ out' = [slug |-> slug, form_id |-> forms[i]._id]
                /\ pc' = [pc EXCEPT !.delete = "found"]
                /\ UNCHANGED resp

IsOfOtherSlug(doc) == doc.slug # out.slug
HasOtherId(doc) == doc._id # out.form_id

\* subs.delete_many({"slug": slug}), src/admin.py:224
delete_many ==
    /\ pc.delete = "found"
    /\ subs' = SelectSeq(subs, IsOfOtherSlug)
    /\ pc' = [pc EXCEPT !.delete = "emptied"]
    /\ UNCHANGED <<forms, now, nextId, resp, inp, out>>

\* forms.delete_one({"_id": form["_id"]}) and the reply, src/admin.py:226-228
delete_one ==
    /\ pc.delete = "emptied"
    /\ forms' = SelectSeq(forms, HasOtherId)
    /\ resp' = Response("delete_form", [slug |-> out.slug], 200, NoErr)
    /\ pc' = [pc EXCEPT !.delete = "done"]
    /\ UNCHANGED <<subs, now, nextId, inp, out>>

RaceBodies == { <<>>, (Lower(Name) :> <<"A", "l">>) }

InitRace ==
    /\ pc = [submit |-> "idle", delete |-> "idle"]
    /\ forms \in {<<f>> : f \in ViewForms}
    /\ subs \in ViewStores
    /\ now = 13
    /\ nextId = 14
    /\ resp = NoResp
    /\ inp = <<>>
    /\ out = <<>>

SubmitFind == \E slug \in RequestSlugs, formdata \in RaceBodies : submit_find(slug, formdata)
SubmitValidate == submit_validate
SubmitInsert == submit_insert
DeleteFind == \E slug \in RequestSlugs : delete_find(slug)
DeleteMany == delete_many
DeleteOne == delete_one

NextRace ==
    \/ SubmitFind
    \/ SubmitValidate
    \/ SubmitInsert
    \/ DeleteFind
    \/ DeleteMany
    \/ DeleteOne

SpecRace == InitRace /\ [][NextRace]_vars

\* delete_form has deleted the form of its slug and has replied
Deleted == pc.delete = "done" /\ out.form_id # 0

\* C18: once delete_form for a slug has completed, no stored submission
\* references that slug, whatever the interleaving of its two steps (delete
\* the submissions, delete the form) with the steps of a concurrent
\* submit_form on the same slug (read the form, validate, insert)
C18_NoOrphans ==
    Deleted => \A k \in DOMAIN subs : subs[k].slug # out.slug

\* as long as the concurrent submit_form has not inserted, a completed
\* delete_form leaves no submission of its slug (holds)
NoOrphansBeforeInsert ==
    (Deleted /\ pc.submit # "done") => \A k \in DOMAIN subs : subs[k].slug # out.slug

=============================================================================
